---- MODULE Spec2Model ----
(***************************************************************************)
(* Guest runtime of the Hyperlight micro-VM sandbox (HyperlightGuest.c):   *)
(* the shared-buffer stack protocol, the dispatcher, the structured        *)
(* (setError / longjmp) and unstructured (OUTB 102) exits.                 *)
(*                                                                         *)
(* Memory is modelled at byte level: a shared buffer is a function from    *)
(* byte offsets to byte values, with the 64-bit little-endian stack        *)
(* pointer in bytes 0..7, exactly as the C code reads and writes it.       *)
(***************************************************************************)
EXTENDS Integers, Sequences, FiniteSets, TLC

(***************************************************************************)
(* Bounds of the model and program constants.                              *)
(***************************************************************************)

\* size in bytes of the shared output buffer (pPeb->outputdata.outputDataSize)
OutputDataSize == 37

\* largest payload length n of a frame pushed in the buffer-level specification
MaxPayload == 2

\* size in bytes of the shared input buffer (pPeb->inputdata.inputDataSize)
InputDataSize == 46

\* size in bytes of the guest-error buffer (pPeb->guestErrorBufferSize)
GuestErrorBufferSize == 10

\* most handler steps (host calls, aborts) before a handler returns or fails
MaxHandlerSteps == 2
GuestPanicContextDataSize == 3
\* pPeb->guestheapData.guestHeapSize: bytes in the heap arena
GuestHeapSize == 2
\* largest distance of the allocated count from zero that is explored
MaxAllocated == 4

\* #define GUEST_ERROR 15 (hyperlight.h)
GUEST_ERROR == 15

\* ErrorCode values of the guest-error schema used by the runtime
NO_ERROR == 0
UNSUPPORTED_PARAMETER_TYPE == 2
GUEST_FUNCTION_NAME_NOT_PROVIDED == 3
GUEST_FUNCTION_NOT_FOUND == 4
GUEST_FUNCTION_INCORRECT_NO_OF_PARAMETERS == 5
UNKNOWN_ERROR == 8
GS_CHECK_FAILED == 10
FAILURE_IN_DLMALLOC == 12
GUEST_FUNCTION_PARAMETER_TYPE_MISMATCH == 14
ARRAY_LENGTH_PARAM_IS_MISSING == 16
\* ErrorCode_is_known_value
ErrorCode_is_known_value(c) == c \in 0..16

\* OUTB ports (hyperlight_guest.h)
OUTB_LOG == 99
OUTB_CALL_FUNCTION == 101
OUTB_ABORT == 102

\* width of the stack pointer and of a back-pointer (uint64_t), of a size prefix
PtrBytes == 8
PrefixBytes == 4

Byte == 0..255

(***************************************************************************)
(* Little-endian integers in a byte-addressed buffer.                      *)
(***************************************************************************)
\* the k bytes of v, least significant first, as a sequence
RECURSIVE LE(_, _)
LE(v, k) == IF k = 0 THEN <<>> ELSE <<v % 256>> \o LE(v \div 256, k - 1)

\* the byte at offset off of buffer b of bsize bytes; a read past the end of
\* the mapping is an out-of-bounds read and yields the unspecified byte fill
RdByte(b, bsize, off, fill) == IF off >= 0 /\ off < bsize THEN b[off] ELSE fill

\* every value of 2^24 or more is kept as Huge: it exceeds every size and
\* offset of the model, which is all the code asks of it
Huge == 256 * 65536

\* the k-byte little-endian integer at offset off (k >= 3)
RdLE(b, bsize, off, k, fill) ==
    IF \E i \in 3..(k - 1) : RdByte(b, bsize, off + i, fill) # 0
    THEN Huge
    ELSE RdByte(b, bsize, off, fill)
         + 256 * RdByte(b, bsize, off + 1, fill)
         + 65536 * RdByte(b, bsize, off + 2, fill)

\* *((uint64_t*)buffer): the relative stack pointer in bytes 0..7
StackPtr(b, bsize) == RdLE(b, bsize, 0, PtrBytes, 0)

\* an empty shared buffer: sp = 8, every other byte zero
EmptyBuffer(bsize) == [o \in 0..(bsize - 1) |-> IF o = 0 THEN PtrBytes ELSE 0]

\* a buffer whose stack pointer bytes hold sp and whose other bytes are zero
BufferWithSp(bsize, sp) ==
    [o \in 0..(bsize - 1) |-> IF o < PtrBytes THEN LE(sp, PtrBytes)[o + 1] ELSE 0]

(***************************************************************************)
(* Messages.  A C string is a sequence of character codes.  The messages   *)
(* the runtime formats itself are short; each gets a distinct code.        *)
(***************************************************************************)
MsgCorruptOutputPtr == <<1>>
MsgNotEnoughSpace == <<2>>
MsgCorruptInputPtr == <<3>>
MsgZeroSizeBuffer == <<4>>

(***************************************************************************)
(* push_shared_output_data(buffer, size) on the shared buffer b.           *)
(* Result: ok = TRUE and the new buffer, or ok = FALSE with the error the  *)
(* code hands to setError (nothing has been written by then).              *)
(***************************************************************************)

\* line 234: the stack pointer may equal the size, never exceed it, never be < 8
PushSpCorrupt_mut(sp, bsize) == sp > bsize
PushSpCorrupt(sp, bsize) == sp > bsize \/ sp < 8

\* lines 242-244: the data plus the 8-byte pointer to it must fit
PushNoSpace_mut(sp, bsize, size) == size + 8 >= bsize - sp
PushNoSpace(sp, bsize, size) ==
    LET size_required == size + 8
        \* size_t: a negative difference wraps around to a huge value
        size_available == IF bsize >= sp THEN bsize - sp ELSE Huge
    IN size_required > size_available

\* lines 252-258: the three writes of a push
PushWrite_mut(b, bsize, sp, data, size) ==
    [o \in 0..(bsize - 1) |->
        IF o < PtrBytes THEN LE(sp + size + 8, PtrBytes)[o + 1]
        ELSE IF o >= sp - 1 /\ o < sp - 1 + size THEN data[o - sp + 2]
        ELSE IF o >= sp + size /\ o < sp + size + 8
             THEN LE(sp, PtrBytes)[o - sp - size + 1]
        ELSE b[o]]
PushWrite(b, bsize, sp, data, size) ==
    [o \in 0..(bsize - 1) |->
        \* line 258: the stack pointer moves past data and back-pointer
        IF o < PtrBytes THEN LE(sp + size + 8, PtrBytes)[o + 1]
        \* line 252: memcpy of the data at sp
        ELSE IF o >= sp /\ o < sp + size THEN data[o - sp + 1]
        \* line 255: the back-pointer (the frame's start) after the data
        ELSE IF o >= sp + size /\ o < sp + size + 8
             THEN LE(sp, PtrBytes)[o - sp - size + 1]
        ELSE b[o]]

push_shared_output_data_mut(b, bsize, data, size) ==
    LET sp == StackPtr(b, bsize) IN
    IF PushSpCorrupt(sp, bsize)
    THEN [ok |-> FALSE, buf |-> b, code |-> GUEST_ERROR, msg |-> MsgCorruptOutputPtr]
    ELSE IF PushNoSpace(sp, bsize, size)
    THEN [ok |-> FALSE,
          buf |-> [o \in 0..(bsize - 1) |->
                      IF o >= sp /\ o < sp + size THEN data[o - sp + 1] ELSE b[o]],
          code |-> GUEST_ERROR, msg |-> MsgNotEnoughSpace]
    ELSE [ok |-> TRUE, buf |-> PushWrite(b, bsize, sp, data, size),
          code |-> 0, msg |-> <<>>]
push_shared_output_data(b, bsize, data, size) ==
    LET sp == StackPtr(b, bsize) IN
    IF PushSpCorrupt(sp, bsize)
    THEN [ok |-> FALSE, buf |-> b, code |-> GUEST_ERROR, msg |-> MsgCorruptOutputPtr]
    ELSE IF PushNoSpace(sp, bsize, size)
    THEN [ok |-> FALSE, buf |-> b, code |-> GUEST_ERROR, msg |-> MsgNotEnoughSpace]
    ELSE [ok |-> TRUE, buf |-> PushWrite(b, bsize, sp, data, size),
          code |-> 0, msg |-> <<>>]

(***************************************************************************)
(* pop_shared_input_buffer() on the shared buffer b.                       *)
(* flatbuffers_read_size_prefix(p, &size) reads the 32-bit size at p and   *)
(* returns p + 4, so the copy of size + 4 bytes starts AFTER the prefix.   *)
(* status: "ok" (ret is the heap copy), "error" (setError), "fault" (a     *)
(* copy of 2^24 bytes or more, or the memset count stack_ptr_rel -         *)
(* last_element_start_rel wrapped around: both run off the mapping).       *)
(***************************************************************************)

\* line 273: sp may equal the size; it can never be less than 16
PopSpCorrupt_mut(sp, bsize) == sp > bsize \/ sp <= 16
PopSpCorrupt(sp, bsize) == sp > bsize \/ sp < 16

\* lines 301-302: malloc(size + 4); memcpy(buffer, temp_buffer, size + 4), where
\* temp_buffer is the frame's start plus the 4 bytes of the size prefix
PopCopy_mut(b, bsize, start, size, fill) ==
    [i \in 1..(size + 4) |-> RdByte(b, bsize, start + i - 1, fill)]
PopCopy(b, bsize, start, size, fill) ==
    [i \in 1..(size + 4) |-> RdByte(b, bsize, start + PrefixBytes + i - 1, fill)]

\* lines 305-309: sp takes the popped frame's start, then [start, sp) is zeroed
PopWrite_mut_nozero(b, bsize, sp, start) ==
    [o \in 0..(bsize - 1) |->
        IF o < PtrBytes THEN LE(start, PtrBytes)[o + 1] ELSE b[o]]
PopWrite(b, bsize, sp, start) ==
    [o \in 0..(bsize - 1) |->
        \* line 309: memset of [start, sp) to zero (after the write of sp)
        IF o >= start /\ o < sp THEN 0
        \* line 305: the new stack pointer
        ELSE IF o < PtrBytes THEN LE(start, PtrBytes)[o + 1]
        ELSE b[o]]

pop_shared_input_buffer(b, bsize, fill) ==
    LET sp == StackPtr(b, bsize) IN
    IF PopSpCorrupt(sp, bsize)
    THEN [status |-> "error", buf |-> b, ret |-> <<>>, code |-> GUEST_ERROR,
          msg |-> MsgCorruptInputPtr]
    ELSE
    LET \* line 285: the back-pointer in the 8 bytes below sp, used unchecked
        last_element_start_rel == RdLE(b, bsize, sp - 8, PtrBytes, fill)
        \* line 291: the size prefix at the frame's start
        size == RdLE(b, bsize, last_element_start_rel, PrefixBytes, fill)
    IN
    IF size <= 0
    THEN [status |-> "error", buf |-> b, ret |-> <<>>, code |-> GUEST_ERROR,
          msg |-> MsgZeroSizeBuffer]
    ELSE IF last_element_start_rel > sp \/ size >= Huge
    THEN [status |-> "fault", buf |-> b, ret |-> <<>>, code |-> 0, msg |-> <<>>]
    ELSE [status |-> "ok",
          buf |-> PopWrite(b, bsize, sp, last_element_start_rel),
          ret |-> PopCopy(b, bsize, last_element_start_rel, size, fill),
          code |-> 0, msg |-> <<>>]

(***************************************************************************)
(* Serialized records.  The flatcc builders and readers are generated code *)
(* outside the source tree; they are modelled here as a plain byte layout  *)
(* with the one property the runtime relies on: a record is a 4-byte       *)
(* little-endian size followed by that many bytes, and a reader given the  *)
(* bytes after the size recovers the fields.                               *)
(***************************************************************************)

\* FunctionCallType
FunctionCallType_guest == 1
FunctionCallType_host == 2

\* ParameterValue union tags and ParameterType enum values
ParameterValue_hlint == 1
ParameterValue_hllong == 2
ParameterValue_hlstring == 3
ParameterValue_hlbool == 4
ParameterValue_hlvecbytes == 5
ParameterType_hlint == 0
ParameterType_hllong == 1
ParameterType_hlstring == 2
ParameterType_hlbool == 3
ParameterType_hlvecbytes == 4

\* ReturnValue union tags
ReturnValue_hlint == 1
ReturnValue_hllong == 2
ReturnValue_hlstring == 3
ReturnValue_hlvoid == 5

\* the NULL char pointer (a real string holds no character 0)
NULL == <<0>>

\* a size-prefixed buffer holding payload
SizePrefixed(payload) == LE(Len(payload), PrefixBytes) \o payload

RECURSIVE Flatten(_)
Flatten(ss) == IF ss = <<>> THEN <<>> ELSE ss[1] \o Flatten(Tail(ss))

\* FunctionCall: name, call type, expected return type, parameters (tag, value)
FunctionCall_payload(fc) ==
    <<Len(fc.name)>> \o fc.name \o <<fc.callType, fc.retType, Len(fc.params)>>
      \o Flatten([i \in 1..Len(fc.params) |-> <<fc.params[i].tag, fc.params[i].val>>])

\* FunctionCall_as_root on the bytes after the size prefix
FunctionCall_as_root(bytes) ==
    LET nl == bytes[1]
        np == bytes[nl + 4]
    IN [name |-> SubSeq(bytes, 2, nl + 1),
        callType |-> bytes[nl + 2],
        retType |-> bytes[nl + 3],
        params |-> [i \in 1..np |-> [tag |-> bytes[nl + 3 + 2 * i],
                                     val |-> bytes[nl + 4 + 2 * i]]]]

\* FunctionCallResult: the return-value tag and the value, a scalar as its
\* little-endian two's-complement bytes (4 for hlint, 8 for hllong).  as_root
\* is given what pop_shared_input_buffer returns: the record and the 4 bytes
\* that follow it.
FunctionCallResult_payload(tag, val) == <<tag>> \o val
FunctionCallResult_as_root(bytes) ==
    [tag |-> bytes[1], val |-> SubSeq(bytes, 2, Len(bytes) - PrefixBytes)]

\* scalar values: int32 words and int64 double words
Int32Values ==
    { <<0, 0, 0, 0>>, <<2, 0, 0, 0>>, <<3, 0, 0, 0>>, <<255, 255, 255, 127>>,
      <<0, 0, 0, 128>>, <<255, 255, 255, 255>> }
Int64Values == { lo \o hi : lo \in Int32Values, hi \in Int32Values }

\* GuestError: code and optional message (GuestError_start_as_root_with_size)
GuestError_payload(code, message) ==
    IF message = NULL THEN <<code, 0>> ELSE <<code, 1>> \o message

\* the guest-error buffer read back: flatbuffers_read_size_prefix + as_root
GuestError_read(eb, ebsize) ==
    LET size == RdLE(eb, ebsize, 0, PrefixBytes, 0) IN
    IF size = 0 THEN [size |-> 0, code |-> NO_ERROR, message |-> NULL]
    ELSE [size |-> size,
          code |-> eb[PrefixBytes],
          message |-> IF eb[PrefixBytes + 1] = 0 THEN NULL
                      ELSE [i \in 1..(size - 2) |->
                              RdByte(eb, ebsize, PrefixBytes + 1 + i, 0)]]

\* GuestLogData written by WriteLogData (level CRITICAL = 5)
LogLevel_Critical == 5
GuestLogData_payload(level) == <<level>>

(***************************************************************************)
(* The guest-error buffer: resetError, writeError, checkForHostError.      *)
(***************************************************************************)

\* line 214: memset(pPeb->pGuestErrorBuffer, 0, pPeb->guestErrorBufferSize)
resetError(ebsize) == [o \in 0..(ebsize - 1) |-> 0]

\* lines 187-201: the record writeError builds from (errorCode, message)
writeError_record(errorCode, message) ==
    LET code == IF ErrorCode_is_known_value(errorCode) THEN errorCode
                ELSE UNKNOWN_ERROR
    IN SizePrefixed(GuestError_payload(code, message))

\* line 204: assert(flatb_size <= pPeb->guestErrorBufferSize)
writeError_fits(errorCode, message, ebsize) ==
    Len(writeError_record(errorCode, message)) <= ebsize

\* line 208: flatcc_builder_copy_buffer copies all flatb_size bytes to the
\* buffer; the bytes that fall past its end land in whatever follows it
writeError_copy(eb, ebsize, errorCode, message) ==
    LET rec == writeError_record(errorCode, message) IN
    [o \in 0..(ebsize - 1) |-> IF o < Len(rec) THEN rec[o + 1] ELSE eb[o]]

\* lines 99-113: a record with size > 0 and code # NoError makes the guest longjmp
checkForHostError_mut(eb, ebsize) == FALSE
checkForHostError(eb, ebsize) ==
    LET e == GuestError_read(eb, ebsize) IN e.size > 0 /\ e.code # NO_ERROR

(***************************************************************************)
(* The function registry.                                                  *)
(***************************************************************************)

\* function names (strings of character codes)
Name_Add == <<65>>
Name_Blob == <<66>>
Name_Copy == <<67>>
Name_Echo == <<69>>
Name_Missing == <<77>>
\* "a": Add's name in lower case
Name_AddLower == <<97>>
\* a name too long for any guest-error record to hold
Name_LongMissing == [i \in 1..GuestErrorBufferSize |-> 77]

\* HyperlightMain of the guest: RegisterFunction calls, in registration order
RegisteredFunctions ==
    << [name |-> Name_Echo, params |-> <<ParameterType_hlstring>>],
       [name |-> Name_Add, params |-> <<ParameterType_hlint, ParameterType_hlint>>],
       [name |-> Name_Copy, params |-> <<ParameterType_hlvecbytes, ParameterType_hlint>>],
       [name |-> Name_Blob, params |-> <<ParameterType_hlvecbytes>>] >>

\* strcmp order on names
RECURSIVE NameLess(_, _)
NameLess(a, b) ==
    IF b = <<>> THEN FALSE
    ELSE IF a = <<>> THEN TRUE
    ELSE IF a[1] # b[1] THEN a[1] < b[1]
    ELSE NameLess(Tail(a), Tail(b))

\* GuestFunctionDefinition_vec_sort_by_function_name (line 94)
InsertByName_mut(d, sorted) == <<d>> \o sorted

RECURSIVE InsertByName(_, _)
InsertByName(d, sorted) ==
    IF sorted = <<>> THEN <<d>>
    ELSE IF NameLess(d.name, sorted[1].name) THEN <<d>> \o sorted
    ELSE <<sorted[1]>> \o InsertByName(d, Tail(sorted))

RECURSIVE SortByName(_)
SortByName(defs) ==
    IF defs = <<>> THEN <<>> ELSE InsertByName(defs[1], SortByName(Tail(defs)))

\* lines 78-97
FinaliseFunctionTable_mut(defs) == defs
FinaliseFunctionTable(defs) == SortByName(defs)

\* *_vec_find_by_function_name: binary search over [lo, hi]; 0 is not_found
RECURSIVE BinarySearch(_, _, _, _)
BinarySearch(defs, name, lo, hi) ==
    IF lo > hi THEN 0
    ELSE LET mid == (lo + hi) \div 2 IN
         IF defs[mid].name = name THEN mid
         ELSE IF NameLess(defs[mid].name, name)
              THEN BinarySearch(defs, name, mid + 1, hi)
              ELSE BinarySearch(defs, name, lo, mid - 1)

vec_find_by_function_name(defs, name) == BinarySearch(defs, name, 1, Len(defs))

(***************************************************************************)
(* CallGuestFunction (lines 733-843), up to the call of the handler.       *)
(* Result: what = "invoke" (the handler runs), "fallback" (the name is not *)
(* registered: GuestDispatchFunction), or "error" (setError(code, msg)).   *)
(***************************************************************************)

\* runtime messages of CallGuestFunction and DispatchFunction
MsgIncorrectCount == <<5>>
\* snprintf "Parameter %d" (line 787)
MsgParameterN(i) == <<6, 48 + i>>
MsgUnexpectedType == <<7>>
MsgLastParamLength == <<8>>
\* snprintf "Function %s parameter %d." (line 834); %d of i < 10 is one digit
MsgTypeMismatch(functionName, i) == <<9>> \o functionName \o <<48 + i>>
MsgInvalidCallType == <<10>>

\* lines 793-817: the ParameterType of a supplied ParameterValue tag, -1 if none
ParameterKindOf(tag) ==
    IF tag = ParameterValue_hlint THEN ParameterType_hlint
    ELSE IF tag = ParameterValue_hllong THEN ParameterType_hllong
    ELSE IF tag = ParameterValue_hlstring THEN ParameterType_hlstring
    ELSE IF tag = ParameterValue_hlbool THEN ParameterType_hlbool
    ELSE IF tag = ParameterValue_hlvecbytes THEN ParameterType_hlvecbytes
    ELSE -1

\* lines 809-812: a vec_bytes argument makes the next one its length
NextParamIsLength_mut(tag) == FALSE
NextParamIsLength(tag) == tag = ParameterValue_hlvecbytes

\* lines 777-818: the first error of the loop over the supplied parameters
KindLoop_mut(params, i, nextParamIsLength) == [code |-> NO_ERROR, msg |-> <<>>]
RECURSIVE KindLoop(_, _, _)
KindLoop(params, i, nextParamIsLength) ==
    IF i > Len(params)
    THEN IF nextParamIsLength
         THEN [code |-> ARRAY_LENGTH_PARAM_IS_MISSING, msg |-> MsgLastParamLength]
         ELSE [code |-> NO_ERROR, msg |-> <<>>]
    ELSE IF nextParamIsLength /\ params[i].tag # ParameterValue_hlint
    THEN [code |-> ARRAY_LENGTH_PARAM_IS_MISSING, msg |-> MsgParameterN(i - 1)]
    ELSE IF ParameterKindOf(params[i].tag) = -1
    THEN [code |-> UNSUPPORTED_PARAMETER_TYPE, msg |-> MsgUnexpectedType]
    ELSE KindLoop(params, i + 1, NextParamIsLength(params[i].tag))

\* line 764
ParameterCountMismatch_mut(requiredParameterCount, actualParameterCount) ==
    requiredParameterCount > actualParameterCount
ParameterCountMismatch(requiredParameterCount, actualParameterCount) ==
    requiredParameterCount # actualParameterCount

\* lines 829-837: the index i of the loop at which setError is called
FirstMismatch_mut(params, parameterTypes) ==
    CHOOSE i \in 1..Len(parameterTypes) :
        /\ ParameterKindOf(params[i].tag) # parameterTypes[i]
        /\ \A j \in (i + 1)..Len(parameterTypes) :
              ParameterKindOf(params[j].tag) = parameterTypes[j]
FirstMismatch(params, parameterTypes) ==
    CHOOSE i \in 1..Len(parameterTypes) :
        /\ ParameterKindOf(params[i].tag) # parameterTypes[i]
        /\ \A j \in 1..(i - 1) :
              ParameterKindOf(params[j].tag) = parameterTypes[j]

CallGuestFunction(defs, functionCall) ==
    LET key == vec_find_by_function_name(defs, functionCall.name) IN
    IF functionCall.name = <<>>
    THEN [what |-> "error", code |-> GUEST_FUNCTION_NAME_NOT_PROVIDED, msg |-> NULL]
    ELSE IF key = 0
    THEN [what |-> "fallback", code |-> NO_ERROR, msg |-> <<>>]
    ELSE
    LET parameterTypes == defs[key].params
        loop == KindLoop(functionCall.params, 1, FALSE)
    IN
    IF ParameterCountMismatch(Len(parameterTypes), Len(functionCall.params))
    THEN [what |-> "error", code |-> GUEST_FUNCTION_INCORRECT_NO_OF_PARAMETERS,
          msg |-> MsgIncorrectCount]
    ELSE IF loop.code # NO_ERROR
    THEN [what |-> "error", code |-> loop.code, msg |-> loop.msg]
    ELSE IF \E i \in 1..Len(parameterTypes) :
               ParameterKindOf(functionCall.params[i].tag) # parameterTypes[i]
    THEN [what |-> "error", code |-> GUEST_FUNCTION_PARAMETER_TYPE_MISMATCH,
          msg |-> MsgTypeMismatch(functionCall.name,
                   FirstMismatch(functionCall.params, parameterTypes) - 1)]
    ELSE [what |-> "invoke", code |-> NO_ERROR, msg |-> <<>>]

(***************************************************************************)
(* State.                                                                  *)
(***************************************************************************)
VARIABLES
    outBuf,     \* the shared output buffer (pPeb->outputdata.outputDataBuffer)
    inBuf,      \* the shared input buffer (pPeb->inputdata.inputDataBuffer)
    errBuf,     \* the guest-error buffer (pPeb->pGuestErrorBuffer)
    panicBuf,   \* the guest panic context buffer
    pc,         \* where the guest is: boot, halted, dispatch, handler, outb,
                \* resume, exit, dead
    cont,       \* the code waiting for the current OUTB to return
    outb,       \* port and value of the current OUTB
    registry,   \* GuestFunctions: the finalised function table
    fallback,   \* which GuestDispatchFunction is linked: default or user
    buffer,     \* DispatchFunction's heap copy of the inbound call
    steps,      \* handler steps taken in the current dispatch
    allocated,  \* hyperlightMoreCore's static count of bytes handed out
    unusedHeapBufferPointer,
                \* hyperlightMoreCore's static cursor (0 until first used)
    obs,        \* history: what the current dispatch has done so far
    shadow,     \* history: the frames pushed and not yet popped, with sp before
    last,       \* history: the last push or pop, its inputs and its result
    base,       \* history: the stack pointer the buffer started with
    seen        \* history: boundary events that have happened so far

bufVars == <<shadow, last, base, seen>>
heapVars == <<allocated, unusedHeapBufferPointer>>
guestVars == <<inBuf, errBuf, panicBuf, pc, cont, outb, registry, fallback,
               buffer, steps, heapVars, obs>>
vars == <<outBuf, inBuf, errBuf, panicBuf, pc, cont, outb, registry, fallback,
          buffer, steps, allocated, unusedHeapBufferPointer, obs,
          shadow, last, base, seen>>

NoCont == [kind |-> "none"]
NoOutb == [port |-> 0, value |-> 0]
Obs0 == [dispatched |-> FALSE, replies |-> 0, aborts |-> 0, hlts |-> 0,
         handlerRuns |-> 0, returned |-> FALSE,
         raised |-> FALSE, raisedCode |-> 0, raisedMsg |-> <<>>, spAtRaise |-> 0,
         jumped |-> FALSE, spAtJump |-> 0,
         call |-> <<>>, lookups |-> 0, fallbackRuns |-> 0, result |-> <<>>,
         stale |-> FALSE,
         attempts |-> 0, outCall |-> <<>>, outSpAtCall |-> 0, inSpAtOutb |-> 0,
         thunkReturned |-> FALSE, hostError |-> FALSE,
         hostPlaced |-> <<>>, hostValue |-> <<>>, moreCore |-> <<>>,
         fatal |-> <<>>, pebAddress |-> 0, entryRet |-> 0, initError |-> FALSE,
         logs |-> 0, seenCall |-> <<>>, abortCall |-> <<>>]

\* the guest before entryPoint has run, its shared buffers empty
GuestIdle ==
    /\ inBuf = EmptyBuffer(InputDataSize)
    /\ panicBuf = [i \in 1..GuestPanicContextDataSize |-> 0]
    /\ pc = "boot"
    /\ cont = NoCont
    /\ outb = NoOutb
    /\ registry = <<>>
    /\ buffer = <<>>
    /\ steps = 0
    /\ allocated = 0
    /\ unusedHeapBufferPointer = 0
    /\ obs = Obs0

NoOp == [op |-> "none"]

(***************************************************************************)
(* Buffer-level specification: the push and pop algorithms applied to one  *)
(* shared buffer, with frames and stack pointers drawn from small sets.    *)
(***************************************************************************)

\* a well-formed frame: a 4-byte size prefix n followed by n payload bytes
PayloadByte == {1, 2}
Frame(payload) == LE(Len(payload), PrefixBytes) \o payload
Payloads == UNION {[1..n -> PayloadByte] : n \in 1..MaxPayload}

\* what push is called with: frames, and the empty buffer (size 0)
PushInputs == {Frame(p) : p \in Payloads} \cup {<<>>}

\* unspecified bytes an out-of-bounds read may yield
GarbageByte == {0, 170}

\* stack pointers the buffer may hold when the runtime first sees it: the
\* empty stack, and two corrupt values on either side of the permitted range
InitialSp == {PtrBytes, PtrBytes - 1, OutputDataSize + 1}

InitBuf ==
    /\ \E sp \in InitialSp :
          /\ outBuf = BufferWithSp(OutputDataSize, sp)
          /\ base = sp
    /\ shadow = <<>>
    /\ last = NoOp
    /\ seen = {}
    /\ fallback = "default"
    /\ errBuf = resetError(GuestErrorBufferSize)
    /\ GuestIdle

BufPush(data) ==
    LET r == push_shared_output_data(outBuf, OutputDataSize, data, Len(data))
        sp == StackPtr(outBuf, OutputDataSize)
    IN
    /\ outBuf' = r.buf
    /\ shadow' = IF r.ok THEN Append(shadow, [data |-> data, sp |-> sp]) ELSE shadow
    /\ last' = [op |-> "push", ok |-> r.ok, code |-> r.code, msg |-> r.msg,
                sp |-> sp, size |-> Len(data), data |-> data, mark |-> sp,
                before |-> outBuf, ret |-> <<>>]
    /\ seen' = seen \cup (IF r.ok /\ sp + Len(data) + 8 = OutputDataSize
                          THEN {"pushExactFit"} ELSE {})
    /\ UNCHANGED <<base, guestVars>>

BufPop(fill) ==
    LET r == pop_shared_input_buffer(outBuf, OutputDataSize, fill)
        sp == StackPtr(outBuf, OutputDataSize)
        top == shadow[Len(shadow)]
    IN
    /\ r.status # "fault"
    /\ outBuf' = r.buf
    /\ shadow' = IF r.status = "ok" THEN SubSeq(shadow, 1, Len(shadow) - 1) ELSE shadow
    /\ last' = [op |-> "pop", ok |-> r.status = "ok", code |-> r.code, msg |-> r.msg,
                sp |-> sp, size |-> 0,
                data |-> IF r.status = "ok" THEN top.data ELSE <<>>,
                mark |-> IF r.status = "ok" THEN top.sp ELSE 0,
                before |-> outBuf, ret |-> r.ret]
    /\ seen' = seen \cup (IF r.status = "error" /\ sp = PtrBytes
                          THEN {"popEmpty"} ELSE {})
                    \cup (IF r.status = "ok" /\ Len(shadow) >= 2 /\ Len(top.data) > 0
                          THEN {"popNested"} ELSE {})
    /\ UNCHANGED <<base, guestVars>>

NextBuf ==
    \/ \E data \in PushInputs : BufPush(data)
    \/ \E fill \in GarbageByte : BufPop(fill)

SpecBuf == InitBuf /\ [][NextBuf]_vars

(***************************************************************************)
(* Both shared buffers together: the guest pushes on the output buffer and *)
(* pops the input buffer, whose contents the host writes.  The host lays a *)
(* frame out as a push does, but the back-pointer is whatever it writes.   *)
(***************************************************************************)

\* frames the host places on the input buffer
HostFrames == {Frame(<<1>>), Frame(<<2, 1>>)}

\* back-pointers the host may write after a frame placed at sp: the frame's
\* start, the start of the buffer, the bottom of the stack, and the offset
\* just above the frame
BackPointers(sp, size) == {sp, 0, PtrBytes, sp + size + 8}

\* the input buffer after the host has placed data at the stack pointer with
\* back-pointer back (read by pop at line 285)
HostWriteFrame(b, bsize, data, back) ==
    LET sp == StackPtr(b, bsize)
        size == Len(data)
    IN [o \in 0..(bsize - 1) |->
           IF o >= sp + size /\ o < sp + size + 8
           THEN LE(back, PtrBytes)[o - sp - size + 1]
           ELSE PushWrite(b, bsize, sp, data, size)[o]]

InitShared ==
    /\ outBuf = EmptyBuffer(OutputDataSize)
    /\ base = PtrBytes
    /\ shadow = <<>>
    /\ last = NoOp
    /\ seen = {}
    /\ fallback = "default"
    /\ errBuf = resetError(GuestErrorBufferSize)
    /\ GuestIdle

SharedHostWrite(data) ==
    /\ pc # "dead"
    /\ ~PushSpCorrupt(StackPtr(inBuf, InputDataSize), InputDataSize)
    /\ ~PushNoSpace(StackPtr(inBuf, InputDataSize), InputDataSize, Len(data))
    /\ \E back \in BackPointers(StackPtr(inBuf, InputDataSize), Len(data)) :
          /\ inBuf' = HostWriteFrame(inBuf, InputDataSize, data, back)
          /\ last' = [op |-> "host", ok |-> TRUE, code |-> 0, msg |-> <<>>,
                      sp |-> StackPtr(inBuf, InputDataSize), size |-> Len(data),
                      back |-> back, outBefore |-> outBuf, inBefore |-> inBuf,
                      ret |-> <<>>]
    /\ UNCHANGED <<outBuf, errBuf, panicBuf, pc, cont, outb, registry, fallback,
                   buffer, steps, heapVars, obs, shadow, base, seen>>

\* push_shared_output_data(data, size): pPeb->outputdata only
SharedPush(data) ==
    /\ pc # "dead"
    /\ \E r \in {push_shared_output_data(outBuf, OutputDataSize, data, Len(data))} :
       /\ outBuf' = r.buf
       /\ last' = [op |-> "push", ok |-> r.ok, code |-> r.code, msg |-> r.msg,
                   sp |-> StackPtr(outBuf, OutputDataSize), size |-> Len(data),
                   back |-> 0, outBefore |-> outBuf, inBefore |-> inBuf,
                   ret |-> <<>>]
    /\ UNCHANGED <<inBuf, errBuf, panicBuf, pc, cont, outb, registry, fallback,
                   buffer, steps, heapVars, obs, shadow, base, seen>>

\* pop_shared_input_buffer(): pPeb->inputdata only; a copy or memset that
\* runs off the mapping ends the guest
SharedPop(fill) ==
    /\ pc # "dead"
    /\ \E r \in {pop_shared_input_buffer(inBuf, InputDataSize, fill)},
          sp \in {StackPtr(inBuf, InputDataSize)} :
       /\ inBuf' = r.buf
       /\ pc' = IF r.status = "fault" THEN "dead" ELSE pc
       /\ last' = [op |-> "pop", ok |-> r.status = "ok", code |-> r.code,
                   msg |-> r.msg, sp |-> sp, size |-> 0,
                   back |-> IF PopSpCorrupt(sp, InputDataSize) THEN 0
                            ELSE RdLE(inBuf, InputDataSize, sp - 8, PtrBytes, fill),
                   outBefore |-> outBuf, inBefore |-> inBuf, ret |-> r.ret]
    /\ UNCHANGED <<outBuf, errBuf, panicBuf, cont, outb, registry, fallback,
                   buffer, steps, heapVars, obs, shadow, base, seen>>

NextShared ==
    \/ \E data \in HostFrames : SharedHostWrite(data)
    \/ \E data \in PushInputs : SharedPush(data)
    \/ \E fill \in GarbageByte : SharedPop(fill)

SpecShared == InitShared /\ [][NextShared]_vars

(***************************************************************************)
(* The dispatcher: entryPoint, DispatchFunction, handlers, OUTB, halt.     *)
(* A local of the code is bound with \E over a one-element set, which       *)
(* gives it the value once, as the assignment in the code does.            *)
(***************************************************************************)

\* the text __assert_fail formats ("Assertion failed: ...")
MsgAssertionFailed == <<11>>
MsgHostFunctionNotFound == <<12>>
MsgHostIncorrectArgs == <<13>>
MsgHostReturnNotInt == <<14>>
MsgHostReturnNotUInt == <<15>>
MsgHostReturnNotULongLong == <<16>>
\* "dlmalloc_abort in HyperlightGuest" (line 1054)
MsgDlmallocAbort == <<17>>

\* abort_with_code_and_message, lines 1042-1045: memcpy of
\* guestPanicContextDataSize bytes starting at message.  The source is the
\* message, its terminating 0 and then whatever follows it in memory (tail).
PanicCopy_mut(message, tail) == [i \in 1..GuestPanicContextDataSize |-> 0]
PanicCopy(message, tail) ==
    [i \in 1..GuestPanicContextDataSize |->
        IF i <= Len(message) THEN message[i]
        ELSE IF i = Len(message) + 1 THEN 0
        ELSE tail]

\* the record WriteLogData pushes for __assert_fail (lines 1003-1008)
LogFrame == SizePrefixed(GuestLogData_payload(LogLevel_Critical))

\* line 849: longjmp(jmpbuf, 1) makes setjmp return 1, the body of the if is
\* skipped and control is at line 877
LongjmpTarget_mut == "handler"
LongjmpTarget == "exit"

\* setError (lines 219-223) with writeError (172-210) and, when the record
\* does not fit, __assert_fail (1059-1066): log record, panic text, OUTB_ABORT
setError(errorCode, message, eb, ob) ==
    IF writeError_fits(errorCode, message, GuestErrorBufferSize)
    THEN [pc |-> LongjmpTarget, outBuf |-> ob, panicBuf |-> panicBuf,
          errBuf |-> writeError_copy(eb, GuestErrorBufferSize, errorCode, message),
          cont |-> NoCont, outb |-> NoOutb]
    ELSE
    LET log == push_shared_output_data(ob, OutputDataSize, LogFrame, Len(LogFrame)) IN
    IF log.ok
    THEN [pc |-> "outb", outBuf |-> log.buf,
          \* __assert_fail copies from its zero-filled message[256]
          panicBuf |-> PanicCopy(MsgAssertionFailed, 0),
          errBuf |-> eb,
          cont |-> [kind |-> "writeError", code |-> errorCode, msg |-> message],
          outb |-> [port |-> OUTB_ABORT, value |-> UNKNOWN_ERROR % 256]]
    ELSE IF writeError_fits(log.code, log.msg, GuestErrorBufferSize)
    THEN [pc |-> LongjmpTarget, outBuf |-> ob, panicBuf |-> panicBuf,
          errBuf |-> writeError_copy(eb, GuestErrorBufferSize, log.code, log.msg),
          cont |-> NoCont, outb |-> NoOutb]
    ELSE [pc |-> "dead", outBuf |-> ob, panicBuf |-> panicBuf, errBuf |-> eb,
          cont |-> NoCont, outb |-> NoOutb]

\* the guest calls setError(errorCode, message); eb is the guest-error buffer
\* and o the history at the call
Raise(errorCode, message, eb, o) ==
    \E e \in {setError(errorCode, message, eb, outBuf)} :
    /\ errBuf' = e.errBuf
    /\ outBuf' = e.outBuf
    /\ panicBuf' = e.panicBuf
    /\ pc' = e.pc
    /\ cont' = e.cont
    /\ outb' = e.outb
    /\ obs' = [o EXCEPT !.raised = TRUE, !.raisedCode = errorCode,
                        !.raisedMsg = message,
                        !.spAtRaise = StackPtr(outBuf, OutputDataSize),
                        !.jumped = (e.pc = "exit"),
                        !.spAtJump = StackPtr(e.outBuf, OutputDataSize),
                        !.aborts = @ + (IF e.pc = "outb" THEN 1 ELSE 0)]

\* halt (lines 161-168): HLT, or a plain return when loaded in process;
\* either way control is back with the host
halt_mut == "dispatch"
halt == "halted"

\* entryPoint runs on whatever the host left in the guest-error buffer: zeroes
\* or a record
GuestErrorAtStart ==
    { resetError(GuestErrorBufferSize),
      writeError_copy(resetError(GuestErrorBufferSize), GuestErrorBufferSize,
                      GUEST_ERROR, <<>>) }

Init ==
    /\ outBuf = EmptyBuffer(OutputDataSize)
    /\ fallback \in {"default", "user"}
    /\ errBuf \in GuestErrorAtStart
    /\ GuestIdle
    /\ shadow = <<>>
    /\ last = NoOp
    /\ base = PtrBytes
    /\ seen = {}

\* entryPoint (lines 1144-1186): reset the error, build and finalise the
\* function table, halt
EntryPoint ==
    /\ pc = "boot"
    /\ errBuf' = resetError(GuestErrorBufferSize)
    /\ registry' = FinaliseFunctionTable(RegisteredFunctions)
    /\ pc' = halt
    /\ UNCHANGED <<outBuf, inBuf, panicBuf, cont, outb, fallback, buffer, steps,
                   obs, bufVars, heapVars>>

\* "Failed to initialize flatcc Guest Function Builder" (line 74), and an
\* error a guest's HyperlightMain raises
MsgInitBuilderFailed == <<18>>
MsgMainFailed == <<19>>

\* what initialisation does: it completes, InitialiseFunctionTable calls
\* setError (lines 72-75), or HyperlightMain calls setError
InitOutcomes == {"completes", "initFails", "mainFails"}

\* the addresses the host may pass as pebAddress
PebAddresses == {0, 4096}

\* line 1148: NULL == pPeb
PebIsNull_mut(pebAddress) == FALSE
PebIsNull(pebAddress) == pebAddress = 0

\* entryPoint (lines 1144-1186) for any pebAddress and any outcome of the
\* initialisation.  A setError inside the setjmp block long-jumps to line
\* 1156, past FinaliseFunctionTable (line 1181), and control reaches halt()
\* (line 1184) with GuestFunctions still unset.
EntryPointWith(pebAddress, outcome) ==
    /\ pc = "boot"
    /\ UNCHANGED <<inBuf, fallback, buffer, steps, bufVars, heapVars>>
    /\ \E o \in {[obs EXCEPT !.pebAddress = pebAddress,
                              !.initError = (outcome # "completes")]} :
       IF PebIsNull(pebAddress)
       THEN /\ pc' = "returned"
            /\ obs' = [o EXCEPT !.entryRet = -1, !.initError = FALSE]
            /\ UNCHANGED <<outBuf, errBuf, panicBuf, cont, outb, registry>>
       ELSE IF outcome = "completes"
       THEN /\ errBuf' = resetError(GuestErrorBufferSize)
            /\ registry' = FinaliseFunctionTable(RegisteredFunctions)
            /\ pc' = halt
            /\ obs' = o
            /\ UNCHANGED <<outBuf, panicBuf, cont, outb>>
       ELSE /\ UNCHANGED registry
            /\ Raise(GUEST_ERROR,
                     IF outcome = "initFails" THEN MsgInitBuilderFailed
                     ELSE MsgMainFailed,
                     resetError(GuestErrorBufferSize), o)

\* the calls the host dispatches
IntParam == [tag |-> ParameterValue_hlint, val |-> 1]
StringParam == [tag |-> ParameterValue_hlstring, val |-> 1]
VecParam == [tag |-> ParameterValue_hlvecbytes, val |-> 1]
UnknownParam == [tag |-> 9, val |-> 1]
GuestCall(name, params) ==
    [name |-> name, callType |-> FunctionCallType_guest,
     retType |-> ReturnValue_hlint, params |-> params]
HostDispatches ==
    { GuestCall(Name_Add, <<IntParam, IntParam>>),
      GuestCall(Name_Add, <<IntParam, StringParam>>),
      GuestCall(Name_Add, <<IntParam>>),
      GuestCall(Name_Add, <<StringParam>>),
      GuestCall(Name_Add, <<IntParam, IntParam, IntParam>>),
      GuestCall(Name_Add, <<StringParam, StringParam>>),
      GuestCall(Name_Add, <<VecParam, IntParam>>),
      GuestCall(Name_Copy, <<VecParam>>),
      GuestCall(Name_AddLower, <<IntParam, IntParam>>),
      GuestCall(Name_Add, <<IntParam, UnknownParam>>),
      GuestCall(Name_Copy, <<VecParam, IntParam>>),
      GuestCall(Name_Copy, <<VecParam, StringParam>>),
      GuestCall(Name_Copy, <<IntParam, VecParam>>),
      GuestCall(Name_Echo, <<StringParam>>),
      GuestCall(Name_Blob, <<VecParam>>),
      GuestCall(Name_Missing, <<>>),
      GuestCall(Name_LongMissing, <<>>),
      GuestCall(<<>>, <<>>),
      [GuestCall(Name_Add, <<IntParam, IntParam>>)
         EXCEPT !.callType = FunctionCallType_host] }

\* the host, while the guest is halted: takes the reply of the last dispatch
\* off the output buffer, pushes a call on the input buffer and enters
\* DispatchFunction through the pointer the guest published
HostDispatch(fc) ==
    /\ pc = "halted"
    /\ \E taken \in {pop_shared_input_buffer(outBuf, OutputDataSize, 0)},
          call \in {SizePrefixed(FunctionCall_payload(fc))} :
       \E pushed \in {push_shared_output_data(inBuf, InputDataSize, call, Len(call))} :
       /\ pushed.ok
       /\ outBuf' = IF obs.replies > 0 /\ taken.status = "ok" THEN taken.buf ELSE outBuf
       /\ inBuf' = pushed.buf
    /\ pc' = "dispatch"
    /\ steps' = 0
    /\ obs' = [Obs0 EXCEPT !.dispatched = TRUE, !.call = fc,
                           !.stale = (errBuf # resetError(GuestErrorBufferSize))]
    /\ UNCHANGED <<errBuf, panicBuf, cont, outb, registry, fallback, buffer, bufVars, heapVars>>

\* GuestDispatchFunctionDefault (hyperlight_guest.h lines 27-32): the
\* arguments of its setError call
GuestDispatchFunctionDefault_mut(functionCall) ==
    [code |-> GUEST_FUNCTION_NOT_FOUND, msg |-> NULL]
GuestDispatchFunctionDefault(functionCall) ==
    [code |-> GUEST_FUNCTION_NOT_FOUND, msg |-> functionCall.name]

\* line 851: DispatchFunction clears the guest-error buffer it finds
ErrorAtDispatch_mut(eb) == eb
ErrorAtDispatch(eb) == resetError(GuestErrorBufferSize)

\* the call-type test of DispatchFunction, line 861
IsGuestCall_mut(functionCall) == TRUE
IsGuestCall(functionCall) == functionCall.callType = FunctionCallType_guest

\* DispatchFunction gets as far as CallGuestFunction (line 864): the pop
\* returns a call and its type is guest
ReachesLookup(ib) ==
    LET p == pop_shared_input_buffer(ib, InputDataSize, 0) IN
    /\ p.status = "ok"
    /\ IsGuestCall(FunctionCall_as_root(p.ret))

\* DispatchFunction, lines 849-867, with CallGuestFunction up to the handler
DispatchFunction ==
    /\ pc = "dispatch"
    /\ registry # <<>> \/ ~ReachesLookup(inBuf)
    /\ UNCHANGED <<registry, fallback, steps, bufVars, heapVars>>
    /\ \E eb \in {ErrorAtDispatch(errBuf)},
          p \in {pop_shared_input_buffer(inBuf, InputDataSize, 0)} :
       /\ p.status # "fault"
       /\ inBuf' = p.buf
       /\ buffer' = p.ret
       /\ IF p.status = "error" THEN Raise(p.code, p.msg, eb, obs)
          ELSE
          \E functionCall \in {FunctionCall_as_root(p.ret)} :
          IF ~IsGuestCall(functionCall)
          THEN Raise(GUEST_ERROR, MsgInvalidCallType, eb, obs)
          ELSE
          \E r \in {CallGuestFunction(registry, functionCall)},
             o \in {[obs EXCEPT !.lookups = @ + 1]} :
          IF r.what = "error" THEN Raise(r.code, r.msg, eb, o)
          ELSE IF r.what = "fallback" /\ fallback = "default"
          THEN Raise(GuestDispatchFunctionDefault(functionCall).code,
                     GuestDispatchFunctionDefault(functionCall).msg, eb,
                     [o EXCEPT !.fallbackRuns = @ + 1])
          ELSE /\ errBuf' = eb
               /\ pc' = "handler"
               /\ obs' = IF r.what = "fallback"
                         THEN [o EXCEPT !.fallbackRuns = @ + 1]
                         ELSE [o EXCEPT !.handlerRuns = @ + 1]
               /\ UNCHANGED <<outBuf, panicBuf, cont, outb>>

\* DispatchFunction, lines 877-881: free the call, halt
DispatchExit ==
    /\ pc = "exit"
    /\ buffer' = <<>>
    /\ pc' = halt
    /\ obs' = [obs EXCEPT !.hlts = @ + 1]
    /\ UNCHANGED <<outBuf, inBuf, errBuf, panicBuf, cont, outb, registry,
                   fallback, steps, bufVars, heapVars>>

\* results a handler returns: an int, void, and a string too long for the
\* output buffer
FunctionCallResult(tag, val) == SizePrefixed(FunctionCallResult_payload(tag, val))
LongResult ==
    SizePrefixed(<<ReturnValue_hlstring>> \o [i \in 1..OutputDataSize |-> 1])
HandlerResults ==
    {FunctionCallResult(ReturnValue_hlint, <<3, 0, 0, 0>>),
     FunctionCallResult(ReturnValue_hlvoid, <<>>),
     LongResult}

\* flatbuffers_read_size_prefix on a buffer in guest memory
read_size_prefix(bytes) == bytes[1] + 256 * bytes[2] + 65536 * bytes[3]

\* lines 867-874: the handler returns result; the dispatcher pushes it
HandlerReturn(result) ==
    /\ pc = "handler"
    /\ UNCHANGED <<inBuf, registry, fallback, buffer, steps, bufVars, heapVars>>
    /\ \E size \in {read_size_prefix(result)} :
       \E r \in {push_shared_output_data(outBuf, OutputDataSize, result, size + 4)} :
       IF r.ok
       THEN /\ outBuf' = r.buf
            /\ pc' = "exit"
            /\ obs' = [obs EXCEPT !.returned = TRUE, !.replies = @ + 1,
                                  !.result = result]
            /\ UNCHANGED <<errBuf, panicBuf, cont, outb>>
       ELSE Raise(r.code, r.msg, errBuf, [obs EXCEPT !.returned = TRUE])

\* messages and codes a handler passes to setError itself
HandlerErrors ==
    {[code |-> GUEST_ERROR, msg |-> <<20>>],
     [code |-> GUEST_ERROR, msg |-> NULL],
     [code |-> GUEST_ERROR, msg |-> [i \in 1..GuestErrorBufferSize |-> 20]],
     [code |-> 99, msg |-> <<20>>]}

\* a handler calls setError(code, msg)
HandlerSetError(e) ==
    /\ pc = "handler"
    /\ UNCHANGED <<inBuf, registry, fallback, buffer, steps, bufVars, heapVars>>
    /\ Raise(e.code, e.msg, errBuf, obs)

\* outb(uint16_t port, uint8_t value) (line 115) called with a uint32_t
\* code: the conversion to uint8_t keeps the low 8 bits
Uint8_mut(code) == code
Uint8(code) == code % 256

\* abort_with_code (lines 1076-1079) called by a handler, up to the OUTB
HandlerAbort(code) ==
    /\ pc = "handler"
    /\ steps < MaxHandlerSteps
    /\ steps' = steps + 1
    /\ pc' = "outb"
    /\ outb' = [port |-> OUTB_ABORT, value |-> Uint8(code)]
    /\ cont' = [kind |-> "handler"]
    /\ obs' = [obs EXCEPT !.aborts = @ + 1,
                          !.abortCall = [fn |-> "abort_with_code", code |-> code]]
    /\ UNCHANGED <<outBuf, inBuf, errBuf, panicBuf, registry, fallback, buffer,
                   bufVars, heapVars>>

\* abort (lines 1081-1084) called by a handler: abort_with_code(0)
HandlerAbortPlain ==
    /\ pc = "handler"
    /\ steps < MaxHandlerSteps
    /\ steps' = steps + 1
    /\ pc' = "outb"
    /\ outb' = [port |-> OUTB_ABORT, value |-> Uint8(0)]
    /\ cont' = [kind |-> "handler"]
    /\ obs' = [obs EXCEPT !.aborts = @ + 1,
                          !.abortCall = [fn |-> "abort", code |-> 0]]
    /\ UNCHANGED <<outBuf, inBuf, errBuf, panicBuf, registry, fallback, buffer,
                   bufVars, heapVars>>

\* what reading past the end of the message does in the memcpy of
\* abort_with_code_and_message: the bytes that follow are zero, or are
\* something else, or the read faults
OverReadOutcomes == {"zeros", "ones", "faults"}

\* the messages a handler aborts with
PanicMessages ==
    { <<66>>, <<66, 79>>, <<66, 79, 79>>, <<66, 79, 79, 77>> }

\* abort_with_code_and_message (lines 1037-1048) called by a handler
\* (guestAbortWithMessage, simpleguest main.c lines 238-242), up to the OUTB
HandlerAbortWithMessage(code, message, overread) ==
    /\ pc = "handler"
    /\ steps < MaxHandlerSteps
    /\ steps' = steps + 1
    /\ IF Len(message) + 1 < GuestPanicContextDataSize /\ overread = "faults"
       THEN /\ pc' = "dead"
            /\ UNCHANGED <<panicBuf, outb, cont, obs>>
       ELSE /\ panicBuf' = PanicCopy(message, IF overread = "ones" THEN 255 ELSE 0)
            /\ pc' = "outb"
            /\ outb' = [port |-> OUTB_ABORT, value |-> Uint8(code)]
            /\ cont' = [kind |-> "abort", code |-> code, msg |-> message]
            /\ obs' = [obs EXCEPT !.aborts = @ + 1,
                                  !.abortCall =
                                      [fn |-> "abort_with_code_and_message",
                                       code |-> code]]
    /\ UNCHANGED <<outBuf, inBuf, errBuf, registry, fallback, buffer, bufVars, heapVars>>

\* the host-function catalog the host published (GetHostFunctionDetails)
Name_GetTwo == <<71>>
Name_HostPrint == <<72>>
Name_HostWrite == <<73>>
HostFunctions ==
    << [name |-> Name_GetTwo, params |-> <<>>],
       [name |-> Name_HostPrint, params |-> <<ParameterType_hlstring>>],
       [name |-> Name_HostWrite,
        params |-> <<ParameterType_hlvecbytes, ParameterType_hlint>>] >>

\* lines 346-432, for int and string parameters: the Parameter built from a
\* catalog type and the next variadic argument
HostParameter(paramType, value) ==
    [tag |-> IF paramType = ParameterType_hlint THEN ParameterValue_hlint
             ELSE ParameterValue_hlstring,
     val |-> value]

\* line 337: numArgs != numParams
HostArgCountMismatch(numArgs, numParams) == numArgs # numParams

\* "Host Function %s: Parameter %d should be length of buffer for parameter
\* %d" (line 393), "Failed to get int32 parameter: %d for host function: %s"
\* (line 407) and "Unexpected parameter type: %d for host function: %s" (424)
MsgHostLengthParam == <<20>>
MsgHostFailedInt32 == <<21>>
MsgHostUnexpectedType == <<22>>

\* line 389: ParameterType_vec_at(parameterTypes, i++).  The post-increment
\* yields i, so the type read is the one at the vec_bytes position itself;
\* i is one larger afterwards.  Positions count from 1 here.
LenParamType(parameterTypes, i) == parameterTypes[i]

\* lines 346-430: the loop over the catalog's parameter types, from position
\* i with the parameters built so far; every va_arg takes the next argument
RECURSIVE HostParamLoop(_, _, _, _, _)
HostParamLoop(functionName, parameterTypes, args, i, built) ==
    IF i > Len(parameterTypes)
    THEN [ok |-> TRUE, code |-> NO_ERROR, msg |-> <<>>, params |-> built]
    ELSE IF parameterTypes[i] \in {ParameterType_hlint, ParameterType_hllong,
                                    ParameterType_hlstring, ParameterType_hlbool}
    THEN HostParamLoop(functionName, parameterTypes, args, i + 1,
                       Append(built, HostParameter(parameterTypes[i],
                                                   args[Len(built) + 1])))
    ELSE IF parameterTypes[i] = ParameterType_hlvecbytes
    THEN IF LenParamType(parameterTypes, i) # ParameterType_hlint
         THEN [ok |-> FALSE, code |-> GUEST_ERROR,
               msg |-> MsgHostLengthParam \o functionName, params |-> <<>>]
         ELSE IF ~(args[Len(built) + 2] # 0 /\ args[Len(built) + 2] > 0)
         THEN [ok |-> FALSE, code |-> GUEST_ERROR,
               msg |-> MsgHostFailedInt32 \o functionName, params |-> <<>>]
         ELSE HostParamLoop(functionName, parameterTypes, args, i + 2,
                 built \o <<[tag |-> ParameterValue_hlvecbytes,
                             val |-> args[Len(built) + 1]],
                            [tag |-> ParameterValue_hlint,
                             val |-> args[Len(built) + 2]]>>)
    ELSE [ok |-> FALSE, code |-> GUEST_ERROR,
          msg |-> MsgHostUnexpectedType \o functionName, params |-> <<>>]

\* ValidateHostFunctionCall (lines 313-435); both messages carry the function
\* name (lines 328 and 340), and the parameters are built in a loop over the
\* catalog's parameter types (line 346)
ValidateHostFunctionCall(functionName, args) ==
    LET key == vec_find_by_function_name(HostFunctions, functionName)
        parameterTypes == HostFunctions[key].params
    IN
    IF key = 0
    THEN [ok |-> FALSE, code |-> GUEST_ERROR,
          msg |-> MsgHostFunctionNotFound \o functionName, params |-> <<>>]
    ELSE IF HostArgCountMismatch(Len(args), Len(parameterTypes))
    THEN [ok |-> FALSE, code |-> GUEST_ERROR,
          msg |-> MsgHostIncorrectArgs \o functionName, params |-> <<>>]
    ELSE HostParamLoop(functionName, parameterTypes, args, 1, <<>>)

\* lines 445-451: the FunctionCall CallHostFunction builds
HostFunctionCall_mut(functionName, params) ==
    [name |-> functionName, callType |-> FunctionCallType_guest, retType |-> 0,
     params |-> params]
HostFunctionCall(functionName, params) ==
    [name |-> functionName, callType |-> FunctionCallType_host, retType |-> 0,
     params |-> params]

\* the host calls a handler makes, and the thunk it makes them through
HandlerHostCalls ==
    {[name |-> Name_GetTwo, args |-> <<>>, thunk |-> "int"],
     [name |-> Name_GetTwo, args |-> <<1>>, thunk |-> "int"],
     [name |-> Name_HostPrint, args |-> <<1>>, thunk |-> "int"],
     [name |-> Name_HostPrint, args |-> <<1>>, thunk |-> "void"],
     [name |-> Name_GetTwo, args |-> <<>>, thunk |-> "longlong"],
     [name |-> <<90>>, args |-> <<>>, thunk |-> "void"],
     [name |-> Name_LongMissing, args |-> <<>>, thunk |-> "int"]}

\* CallHostFunction (lines 437-462) called through a thunk, up to the OUTB
HandlerCallHost(c) ==
    /\ pc = "handler"
    /\ steps < MaxHandlerSteps
    /\ steps' = steps + 1
    /\ UNCHANGED <<inBuf, registry, fallback, buffer, bufVars, heapVars>>
    /\ \E v \in {ValidateHostFunctionCall(c.name, c.args)},
          o \in {[obs EXCEPT !.attempts = @ + 1, !.outCall = c,
                             !.outSpAtCall = StackPtr(outBuf, OutputDataSize),
                             !.inSpAtOutb = StackPtr(inBuf, InputDataSize),
                             !.thunkReturned = FALSE,
                             !.hostPlaced = <<>>, !.hostValue = <<>>]} :
       \E call \in {SizePrefixed(FunctionCall_payload(
                       HostFunctionCall(c.name, v.params)))} :
       \E r \in {push_shared_output_data(outBuf, OutputDataSize, call, Len(call))} :
       IF ~v.ok THEN Raise(v.code, v.msg, errBuf, o)
       ELSE IF ~r.ok THEN Raise(r.code, r.msg, errBuf, o)
       ELSE /\ outBuf' = r.buf
            /\ pc' = "outb"
            /\ outb' = [port |-> OUTB_CALL_FUNCTION, value |-> 0]
            /\ cont' = [kind |-> "thunk", thunk |-> c.thunk]
            /\ obs' = o
            /\ UNCHANGED <<errBuf, panicBuf>>

\* what the host does with an OUTB before it returns control: nothing, a
\* reply pushed on the input buffer, or an error written to the guest-error
\* buffer (ErrorCode OutbError)
ErrorCode_OutbError == 7
MsgHostError == <<30>>
HostAnswers ==
    {[kind |-> "nothing", frame |-> <<>>],
     [kind |-> "reply", frame |-> FunctionCallResult(ReturnValue_hlint, <<2, 0, 0, 0>>)],
     [kind |-> "reply",
      frame |-> FunctionCallResult(ReturnValue_hllong, <<2, 0, 0, 0, 0, 0, 0, 0>>)],
     [kind |-> "reply", frame |-> FunctionCallResult(ReturnValue_hlstring, <<2>>)],
     [kind |-> "error", frame |-> <<>>]}

\* outb (lines 115-147): the host handles the port and returns.  For
\* OUTB_CALL_FUNCTION it takes the call off the output buffer and answers.
HostReturn(a) ==
    /\ pc = "outb"
    /\ a.kind = "nothing" => outb.port \in {OUTB_ABORT, OUTB_LOG}
    /\ a.kind = "reply" => outb.port = OUTB_CALL_FUNCTION
    /\ \E taken \in {pop_shared_input_buffer(outBuf, OutputDataSize, 0)},
          pushed \in {push_shared_output_data(inBuf, InputDataSize, a.frame,
                                              Len(a.frame))} :
       /\ outBuf' = IF outb.port = OUTB_CALL_FUNCTION THEN taken.buf ELSE outBuf
       /\ inBuf' = IF a.kind = "reply" /\ pushed.ok THEN pushed.buf ELSE inBuf
       /\ obs' = [obs EXCEPT !.hostError = (@ \/ a.kind = "error"),
                             !.hostPlaced = IF a.kind = "reply" /\ pushed.ok
                                            THEN a.frame ELSE <<>>]
    /\ errBuf' = IF a.kind = "error"
                 THEN writeError_copy(errBuf, GuestErrorBufferSize,
                                      ErrorCode_OutbError, MsgHostError)
                 ELSE errBuf
    /\ pc' = "resume"
    /\ UNCHANGED <<panicBuf, cont, outb, registry, fallback, buffer, steps,
                   bufVars, heapVars>>

\* the host tears the sandbox down instead of returning from OUTB_ABORT
HostTearDown ==
    /\ pc = "outb"
    /\ outb.port = OUTB_ABORT
    /\ pc' = "dead"
    /\ UNCHANGED <<outBuf, inBuf, errBuf, panicBuf, cont, outb, registry,
                   fallback, buffer, steps, obs, bufVars, heapVars>>

\* what a copy past the end of the guest-error buffer does: the bytes land
\* in the memory that follows and the guest goes on, or the guest faults
OverflowOutcomes == {"continues", "faults"}

\* the return-value type a thunk's GetHostReturnValueAs... accepts (lines
\* 495 and 582; the unsigned readers go through the signed ones, lines 541
\* and 615)
ExpectedReturnValue(thunk) ==
    IF thunk \in {"longlong", "ulonglong"} THEN ReturnValue_hllong
    ELSE ReturnValue_hlint

\* intVal < 0 (line 542), longLongRet < 0 (line 616): the sign bit
IsNegative_mut(v) == FALSE
IsNegative(v) == v[Len(v)] >= 128

\* hlint_value_get (line 499), hllong_value_get (line 586)
value_get_mut(funcCallRes) == [i \in 1..Len(funcCallRes.val) |-> 0]
value_get(funcCallRes) == funcCallRes.val

\* GetHostReturnValueAsInt, AsUInt, AsLongLong, AsULongLong (lines 481-625)
\* on the popped buffer: the value returned, or the setError made instead
GetHostReturnValue(thunk, popped) ==
    LET funcCallRes == FunctionCallResult_as_root(popped) IN
    IF funcCallRes.tag # ExpectedReturnValue(thunk)
    THEN [ok |-> FALSE, msg |-> MsgHostReturnNotInt, value |-> <<>>]
    ELSE IF thunk \in {"uint", "ulonglong"} /\ IsNegative(value_get(funcCallRes))
    THEN [ok |-> FALSE,
          msg |-> IF thunk = "uint" THEN MsgHostReturnNotUInt
                  ELSE MsgHostReturnNotULongLong,
          value |-> <<>>]
    ELSE [ok |-> TRUE, msg |-> <<>>, value |-> value_get(funcCallRes)]

\* GetFlatBufferResultFromInt(uint32_t value) (lines 683-693): the argument
\* is converted to 32 bits and stored as an hlint
GetFlatBufferResultFromInt(value) ==
    FunctionCallResult(ReturnValue_hlint,
                       SubSeq(value, 1, IF Len(value) < 4 THEN Len(value) ELSE 4))

(***************************************************************************)
(* hyperlightMoreCore (lines 1088-1128), the allocator's source of memory. *)
(* size and allocated are size_t: a value of Z/2^64 is written as its      *)
(* representative nearest zero, so -1 stands for 2^64 - 1; sums stay far   *)
(* from 2^63, where the representative would change, and comparisons are   *)
(* unsigned.  A pointer is an address; the arena starts at guestHeapBuffer.*)
(***************************************************************************)
guestHeapBuffer == 64

\* a > b on size_t
GreaterUnsigned(a, b) == IF (a < 0) = (b < 0) THEN a > b ELSE a < 0

\* line 1096: allocated + size > guestHeapSize
MoreCoreExhausted_mut(size, alloc) == FALSE

MoreCoreExhausted(size, alloc) == GreaterUnsigned(alloc + size, GuestHeapSize)

\* lines 1102-1109: hand out the region at the cursor and advance
MoreCoreAdvance(size, alloc, cursor) ==
    LET ptr == IF cursor = 0 THEN guestHeapBuffer ELSE cursor
    IN  [ptr |-> ptr, allocated |-> alloc + size, unused |-> ptr + size]

\* the requests made of hyperlightMoreCore: nothing, up to one byte more
\* than the arena, and a trim by one byte
MoreCoreSizes == (0..(GuestHeapSize + 1)) \cup {-1}

\* a call of hyperlightMoreCore from the allocator while a handler runs.
\* size > 0 is size # 0 for a size_t, and the branch for size < 0 (lines
\* 1111-1123) is never taken; abort() (line 1098) is outb(OUTB_ABORT, 0)
HandlerMoreCore(size) ==
    /\ pc = "handler"
    /\ steps < MaxHandlerSteps
    /\ steps' = steps + 1
    /\ allocated + size \in (-MaxAllocated)..MaxAllocated
    /\ UNCHANGED <<outBuf, inBuf, errBuf, panicBuf, registry, fallback, buffer,
                   bufVars>>
    /\ \E m \in {[size |-> size, allocated |-> allocated,
                   cursor |-> unusedHeapBufferPointer]} :
       IF size # 0 /\ MoreCoreExhausted(size, allocated)
       THEN /\ pc' = "outb"
            /\ outb' = [port |-> OUTB_ABORT, value |-> 0]
            /\ cont' = [kind |-> "moreCore", size |-> size]
            /\ obs' = [obs EXCEPT !.aborts = @ + 1,
                          !.moreCore = m @@ [aborted |-> TRUE, code |-> 0,
                                             returned |-> FALSE, ret |-> 0]]
            /\ UNCHANGED heapVars
       ELSE IF size # 0
       THEN \E r \in {MoreCoreAdvance(size, allocated, unusedHeapBufferPointer)} :
            /\ allocated' = r.allocated
            /\ unusedHeapBufferPointer' = r.unused
            /\ obs' = [obs EXCEPT
                          !.moreCore = m @@ [aborted |-> FALSE, code |-> 0,
                                             returned |-> TRUE, ret |-> r.ptr]]
            /\ UNCHANGED <<pc, cont, outb>>
       ELSE /\ obs' = [obs EXCEPT
                          !.moreCore = m @@ [aborted |-> FALSE, code |-> 0,
                                             returned |-> TRUE,
                                             ret |-> unusedHeapBufferPointer]]
            /\ UNCHANGED <<pc, cont, outb, heapVars>>

\* WriteLogData (lines 915-1012) and then abort_with_code_and_message (lines
\* 1037-1048) from a zero-filled message[256].  The push inside WriteLogData
\* calls setError when the record does not fit the output buffer.
LogThenAbort(path, code, message) ==
    /\ steps < MaxHandlerSteps
    /\ steps' = steps + 1
    /\ UNCHANGED <<inBuf, registry, fallback, buffer, bufVars, heapVars>>
    /\ \E log \in {push_shared_output_data(outBuf, OutputDataSize, LogFrame,
                                            Len(LogFrame))},
          o \in {[obs EXCEPT !.fatal = Append(@, path)]} :
       IF log.ok
       THEN /\ outBuf' = log.buf
            /\ panicBuf' = PanicCopy(message, 0)
            /\ pc' = "outb"
            /\ outb' = [port |-> OUTB_ABORT, value |-> Uint8(code)]
            /\ cont' = [kind |-> "abort", code |-> code, msg |-> message]
            /\ obs' = [o EXCEPT !.aborts = @ + 1]
            /\ UNCHANGED errBuf
       ELSE Raise(log.code, log.msg, errBuf, o)

\* dlmalloc_abort (lines 1050-1057)
HandlerDlmallocAbort ==
    /\ pc = "handler"
    /\ LogThenAbort("dlmalloc_abort", FAILURE_IN_DLMALLOC, MsgDlmallocAbort)

\* __assert_fail (lines 1059-1066) for an assert in guest code
HandlerAssertFail ==
    /\ pc = "handler"
    /\ LogThenAbort("__assert_fail", UNKNOWN_ERROR, MsgAssertionFailed)

\* dlmalloc_failure (lines 1070-1074), up to the OUTB of Log (lines
\* 1014-1018); abort() follows when that OUTB returns
HandlerDlmallocFailure ==
    /\ pc = "handler"
    /\ steps < MaxHandlerSteps
    /\ steps' = steps + 1
    /\ UNCHANGED <<inBuf, registry, fallback, buffer, bufVars, heapVars>>
    /\ \E log \in {push_shared_output_data(outBuf, OutputDataSize, LogFrame,
                                            Len(LogFrame))},
          o \in {[obs EXCEPT !.fatal = Append(@, "dlmalloc_failure")]} :
       IF log.ok
       THEN /\ outBuf' = log.buf
            /\ pc' = "outb"
            /\ outb' = [port |-> OUTB_LOG, value |-> 0]
            /\ cont' = [kind |-> "dlmalloc_failure"]
            /\ obs' = o
            /\ UNCHANGED <<errBuf, panicBuf>>
       ELSE Raise(log.code, log.msg, errBuf, o)

\* report_gsfailure (lines 1022-1025), also reached from
\* __report_rangecheckfailure (lines 1027-1030)
HandlerGsFailure ==
    /\ pc = "handler"
    /\ UNCHANGED <<inBuf, registry, fallback, buffer, steps, bufVars, heapVars>>
    /\ Raise(GS_CHECK_FAILED, NULL, errBuf,
             [obs EXCEPT !.fatal = Append(@, "report_gsfailure")])

\* DispatchFunction entered while GuestFunctions is unset: after the pop and
\* the call-type check, CallGuestFunction (line 747) reads the function
\* vector through a null table pointer.  The read trips the accessor's
\* assertion (__assert_fail, lines 1059-1066) or faults.
NullTableOutcomes == {"asserts", "faults"}

DispatchUnfinalised(outcome) ==
    /\ pc = "dispatch"
    /\ registry = <<>>
    /\ ReachesLookup(inBuf)
    /\ steps < MaxHandlerSteps
    /\ steps' = steps + 1
    /\ UNCHANGED <<registry, fallback, bufVars, heapVars>>
    /\ \E p \in {pop_shared_input_buffer(inBuf, InputDataSize, 0)},
          log \in {push_shared_output_data(outBuf, OutputDataSize, LogFrame,
                                            Len(LogFrame))},
          o \in {[obs EXCEPT !.fatal = Append(@, "__assert_fail")]} :
       /\ inBuf' = p.buf
       /\ buffer' = p.ret
       /\ IF outcome = "faults"
          THEN /\ pc' = "dead"
               /\ errBuf' = ErrorAtDispatch(errBuf)
               /\ UNCHANGED <<outBuf, panicBuf, cont, outb, obs>>
          ELSE IF log.ok
          THEN /\ outBuf' = log.buf
               /\ errBuf' = ErrorAtDispatch(errBuf)
               /\ panicBuf' = PanicCopy(MsgAssertionFailed, 0)
               /\ pc' = "outb"
               /\ outb' = [port |-> OUTB_ABORT, value |-> UNKNOWN_ERROR % 256]
               /\ cont' = [kind |-> "nullTable"]
               /\ obs' = [o EXCEPT !.aborts = @ + 1]
          ELSE Raise(log.code, log.msg, ErrorAtDispatch(errBuf), o)

\* Log (lines 1014-1018) called by a handler (LogToHost, simpleguest main.c
\* lines 67-70), up to the OUTB
LogLevel_Information == 2
HandlerLog ==
    /\ pc = "handler"
    /\ steps < MaxHandlerSteps
    /\ steps' = steps + 1
    /\ UNCHANGED <<inBuf, registry, fallback, buffer, bufVars, heapVars>>
    /\ \E data \in {SizePrefixed(GuestLogData_payload(LogLevel_Information))} :
       \E log \in {push_shared_output_data(outBuf, OutputDataSize, data, Len(data))} :
       IF log.ok
       THEN /\ outBuf' = log.buf
            /\ pc' = "outb"
            /\ outb' = [port |-> OUTB_LOG, value |-> 0]
            /\ cont' = [kind |-> "handler"]
            /\ obs' = [obs EXCEPT !.logs = @ + 1]
            /\ UNCHANGED <<errBuf, panicBuf>>
       ELSE Raise(log.code, log.msg, errBuf, obs)

\* the function-call record as the handler sees it: the table inside the
\* heap copy DispatchFunction made of the popped frame (lines 855-859), not
\* the bytes of the input buffer
HandlerView_mut(heapCopy, ib) ==
    [i \in 1..Len(heapCopy) |->
        RdByte(ib, InputDataSize, StackPtr(ib, InputDataSize) + i - 1, 0)]
HandlerView(heapCopy, ib) == heapCopy

\* the handler reads its function call (GuestDispatchFunction, simpleguest
\* main.c lines 265-269)
HandlerReadCall ==
    /\ pc = "handler"
    /\ obs' = [obs EXCEPT !.seenCall = HandlerView(buffer, inBuf)]
    /\ UNCHANGED <<outBuf, inBuf, errBuf, panicBuf, pc, cont, outb, registry,
                   fallback, buffer, steps, bufVars, heapVars>>

\* outb returns (line 156 checkForHostError) and the interrupted code goes
\* on: the handler, the thunk (lines 467-522, 554-596: the void thunk returns
\* at once, the others pop the reply), or writeError after its failed assert
\* (lines 206-210, then line 222), or hyperlightMoreCore after abort() (lines
\* 1102-1109)
Resume(overflow) ==
    /\ pc = "resume"
    /\ UNCHANGED <<registry, fallback, buffer, steps, bufVars>>
    /\ (cont.kind = "moreCore" /\ ~checkForHostError(errBuf, GuestErrorBufferSize))
       \/ UNCHANGED heapVars
    /\ IF checkForHostError(errBuf, GuestErrorBufferSize)
       THEN /\ pc' = LongjmpTarget
            /\ cont' = NoCont
            /\ outb' = NoOutb
            /\ obs' = [obs EXCEPT !.jumped = TRUE,
                                  !.spAtJump = StackPtr(outBuf, OutputDataSize)]
            /\ UNCHANGED <<outBuf, inBuf, errBuf, panicBuf>>
       ELSE IF cont.kind = "writeError"
       THEN /\ pc' = IF overflow = "continues" THEN LongjmpTarget ELSE "dead"
            /\ errBuf' = IF overflow = "continues"
                         THEN writeError_copy(errBuf, GuestErrorBufferSize,
                                              cont.code, cont.msg)
                         ELSE errBuf
            /\ cont' = NoCont
            /\ outb' = NoOutb
            /\ obs' = [obs EXCEPT !.jumped = (overflow = "continues"),
                                  !.spAtJump = StackPtr(outBuf, OutputDataSize)]
            /\ UNCHANGED <<outBuf, inBuf, panicBuf>>
       ELSE IF cont.kind = "moreCore"
       THEN \E r \in {MoreCoreAdvance(cont.size, allocated,
                                      unusedHeapBufferPointer)} :
            /\ allocated' = r.allocated
            /\ unusedHeapBufferPointer' = r.unused
            /\ pc' = "handler"
            /\ cont' = NoCont
            /\ outb' = NoOutb
            /\ obs' = [obs EXCEPT !.moreCore = [@ EXCEPT !.returned = TRUE,
                                                         !.ret = r.ptr]]
            /\ UNCHANGED <<outBuf, inBuf, errBuf, panicBuf>>
       ELSE IF cont.kind = "nullTable"
       THEN /\ pc' = "dead"
            /\ cont' = NoCont
            /\ outb' = NoOutb
            /\ UNCHANGED <<outBuf, inBuf, errBuf, panicBuf, obs>>
       ELSE IF cont.kind = "dlmalloc_failure"
       THEN /\ pc' = "outb"
            /\ outb' = [port |-> OUTB_ABORT, value |-> 0]
            /\ cont' = [kind |-> "handler"]
            /\ obs' = [obs EXCEPT !.aborts = @ + 1]
            /\ UNCHANGED <<outBuf, inBuf, errBuf, panicBuf>>
       ELSE IF cont.kind \in {"handler", "abort"} \/ cont.thunk = "void"
       THEN /\ pc' = "handler"
            /\ cont' = NoCont
            /\ outb' = NoOutb
            /\ obs' = [obs EXCEPT !.thunkReturned = (@ \/ cont.kind = "thunk")]
            /\ UNCHANGED <<outBuf, inBuf, errBuf, panicBuf>>
       ELSE \E p \in {pop_shared_input_buffer(inBuf, InputDataSize, 0)} :
            /\ p.status # "fault"
            /\ inBuf' = p.buf
            /\ IF p.status = "error" THEN Raise(p.code, p.msg, errBuf, obs)
               ELSE \E r \in {GetHostReturnValue(cont.thunk, p.ret)} :
               IF ~r.ok THEN Raise(GUEST_ERROR, r.msg, errBuf, obs)
               ELSE /\ pc' = "handler"
                    /\ cont' = NoCont
                    /\ outb' = NoOutb
                    /\ obs' = [obs EXCEPT !.thunkReturned = TRUE,
                                          !.hostValue = r.value]
                    /\ UNCHANGED <<outBuf, errBuf, panicBuf>>

\* a handler that returns what the thunk gave it (printOutputAsGuestFunction,
\* line 1196)
HandlerReturnHostValue ==
    /\ obs.thunkReturned
    /\ obs.hostValue # <<>>
    /\ HandlerReturn(GetFlatBufferResultFromInt(obs.hostValue))

HandlerStep ==
    \/ \E result \in HandlerResults : HandlerReturn(result)
    \/ HandlerReturnHostValue
    \/ \E e \in HandlerErrors : HandlerSetError(e)
    \/ \E code \in {0, 7} : HandlerAbort(code)
    \/ \E c \in HandlerHostCalls : HandlerCallHost(c)

GuestStep ==
    \/ EntryPoint
    \/ DispatchFunction
    \/ HandlerStep
    \/ \E overflow \in OverflowOutcomes : Resume(overflow)
    \/ DispatchExit

HostStep ==
    \/ \E fc \in HostDispatches : HostDispatch(fc)
    \/ \E a \in HostAnswers : HostReturn(a)
    \/ HostTearDown

Next == GuestStep \/ HostStep

Spec == Init /\ [][Next]_vars

\* the scalar thunks on their own: a handler that makes outbound calls
\* through the int, uint, longlong and ulonglong thunks, a host that answers
\* with every scalar value, and the handler returning what it was given
ThunkCalls ==
    { [name |-> Name_GetTwo, args |-> <<>>, thunk |-> t] :
        t \in {"int", "uint", "longlong", "ulonglong"} }
HostScalarAnswers ==
    { [kind |-> "reply", frame |-> FunctionCallResult(ReturnValue_hlint, v)] :
        v \in Int32Values }
    \cup { [kind |-> "reply", frame |-> FunctionCallResult(ReturnValue_hllong, v)] :
             v \in Int64Values }
    \cup { [kind |-> "reply", frame |-> FunctionCallResult(ReturnValue_hlstring, <<2>>)] }

NextThunk ==
    \/ EntryPoint
    \/ HostDispatch(GuestCall(Name_Echo, <<StringParam>>))
    \/ DispatchFunction
    \/ \E c \in ThunkCalls : HandlerCallHost(c)
    \/ \E a \in HostScalarAnswers : HostReturn(a)
    \/ Resume("continues")
    \/ HandlerReturnHostValue
    \/ DispatchExit

SpecThunk == Init /\ [][NextThunk]_vars

\* the abort paths on their own: a handler that aborts, a host that returns
\* from the OUTB or tears the sandbox down
AbortAnswers ==
    {[kind |-> "nothing", frame |-> <<>>], [kind |-> "error", frame |-> <<>>]}

HandlerAborts ==
    \/ \E code \in {7, 263}, message \in PanicMessages, overread \in OverReadOutcomes :
          HandlerAbortWithMessage(code, message, overread)
    \/ \E code \in {0, 7, 263} : HandlerAbort(code)
    \/ HandlerAbortPlain

\* the runtime's own fatal paths, entered while a handler runs
FatalPaths ==
    \/ \E size \in MoreCoreSizes : HandlerMoreCore(size)
    \/ HandlerDlmallocAbort
    \/ HandlerDlmallocFailure
    \/ HandlerAssertFail
    \/ HandlerGsFailure

NextAbort ==
    \/ EntryPoint
    \/ HostDispatch(GuestCall(Name_Echo, <<StringParam>>))
    \/ DispatchFunction
    \/ HandlerAborts
    \/ \E a \in AbortAnswers : HostReturn(a)
    \/ HostTearDown
    \/ \E overflow \in OverflowOutcomes : Resume(overflow)
    \/ HandlerReturn(FunctionCallResult(ReturnValue_hlvoid, <<>>))
    \/ DispatchExit

SpecAbort == Init /\ [][NextAbort]_vars

\* the fatal paths on their own
NextFatal ==
    \/ EntryPoint
    \/ HostDispatch(GuestCall(Name_Echo, <<StringParam>>))
    \/ DispatchFunction
    \/ FatalPaths
    \/ \E a \in AbortAnswers : HostReturn(a)
    \/ HostTearDown
    \/ \E overflow \in OverflowOutcomes : Resume(overflow)
    \/ HandlerReturn(FunctionCallResult(ReturnValue_hlvoid, <<>>))
    \/ DispatchExit

SpecFatal == Init /\ [][NextFatal]_vars

\* the guest from the call of entryPoint on, for every pebAddress and every
\* outcome of the initialisation
NextInit ==
    \/ \E pebAddress \in PebAddresses, outcome \in InitOutcomes :
          EntryPointWith(pebAddress, outcome)
    \/ \E fc \in HostDispatches : HostDispatch(fc)
    \/ DispatchFunction
    \/ \E outcome \in NullTableOutcomes : DispatchUnfinalised(outcome)
    \/ \E result \in HandlerResults : HandlerReturn(result)
    \/ \E a \in AbortAnswers : HostReturn(a)
    \/ HostTearDown
    \/ \E overflow \in OverflowOutcomes : Resume(overflow)
    \/ DispatchExit

SpecInit == Init /\ [][NextInit]_vars

\* a handler or the fallback dispatcher that logs, calls the host and then
\* reads the call it was given
NestedDispatches ==
    { GuestCall(Name_Echo, <<StringParam>>), GuestCall(Name_Missing, <<>>) }
NestedHostCalls ==
    {[name |-> Name_HostPrint, args |-> <<1>>, thunk |-> "int"],
     [name |-> Name_HostPrint, args |-> <<1>>, thunk |-> "void"]}
NextNested ==
    \/ EntryPoint
    \/ \E fc \in NestedDispatches : HostDispatch(fc)
    \/ DispatchFunction
    \/ HandlerLog
    \/ \E c \in NestedHostCalls : HandlerCallHost(c)
    \/ \E a \in HostAnswers : HostReturn(a)
    \/ Resume("continues")
    \/ HandlerReadCall
    \/ HandlerReturn(FunctionCallResult(ReturnValue_hlint, <<3, 0, 0, 0>>))
    \/ DispatchExit

SpecNested == Init /\ [][NextNested]_vars

\* calls to the registered functions with every combination of argument
\* types of the declared length
ArgParams == {IntParam, StringParam, VecParam, UnknownParam}
ArgDispatches ==
    { GuestCall(name, <<a, b>>) :
         name \in {Name_Add, Name_Copy}, a \in ArgParams, b \in ArgParams }
    \cup { GuestCall(name, <<a>>) : name \in {Name_Echo, Name_Blob}, a \in ArgParams }
NextArgs ==
    \/ EntryPoint
    \/ \E fc \in ArgDispatches : HostDispatch(fc)
    \/ DispatchFunction
    \/ HandlerReturn(FunctionCallResult(ReturnValue_hlint, <<3, 0, 0, 0>>))
    \/ DispatchExit

SpecArgs == Init /\ [][NextArgs]_vars

\* a handler calling host functions, one of which takes a buffer and its
\* length
VecHostCalls ==
    {[name |-> Name_HostWrite, args |-> <<1, len>>, thunk |-> "int"] :
        len \in {2, 1, 0, -1}}
    \cup {[name |-> Name_HostWrite, args |-> <<1>>, thunk |-> "int"],
          [name |-> Name_HostPrint, args |-> <<1>>, thunk |-> "int"]}
NextHostCall ==
    \/ EntryPoint
    \/ HostDispatch(GuestCall(Name_Echo, <<StringParam>>))
    \/ DispatchFunction
    \/ \E c \in VecHostCalls : HandlerCallHost(c)
    \/ \E a \in HostAnswers : HostReturn(a)
    \/ Resume("continues")
    \/ HandlerReturn(FunctionCallResult(ReturnValue_hlint, <<3, 0, 0, 0>>))
    \/ DispatchExit

SpecHostCall == Init /\ [][NextHostCall]_vars

\* the allocator asking hyperlightMoreCore for memory while handlers run
NextHeap ==
    \/ EntryPoint
    \/ HostDispatch(GuestCall(Name_Echo, <<StringParam>>))
    \/ DispatchFunction
    \/ \E size \in MoreCoreSizes : HandlerMoreCore(size)
    \/ \E a \in AbortAnswers : HostReturn(a)
    \/ HostTearDown
    \/ Resume("continues")
    \/ HandlerReturn(FunctionCallResult(ReturnValue_hlvoid, <<>>))
    \/ DispatchExit

SpecHeap == Init /\ [][NextHeap]_vars

\* the guest runs on: once control is at the dispatcher's exit (line 877) it
\* goes through to halt
FairSpec == Spec /\ WF_vars(DispatchExit)

(***************************************************************************)
(* Claims about the dispatcher (checked under Spec and FairSpec).          *)
(***************************************************************************)

OutSp == StackPtr(outBuf, OutputDataSize)

\* the dispatcher states of the specification, read off the guest's position
Mode ==
    IF pc \in {"boot", "halted"} THEN "Idle"
    ELSE IF pc = "exit" THEN "ReplyPending"
    ELSE IF pc = "dead" THEN "Gone"
    ELSE "Serving"

ErrorRecord == GuestError_read(errBuf, GuestErrorBufferSize)

\* C1: when a dispatch has given control back to the host for good (the guest
\* halted, or the sandbox is gone), the host has seen exactly one of: (a) one
\* reply frame with the guest-error buffer empty, (b) an error record with
\* code # NoError, no reply frame and a HLT, (c) an OUTB on port 102.
C1_ExactlyOneOutcome ==
    (obs.dispatched /\ pc \in {"halted", "dead"}) =>
        LET a == obs.replies = 1 /\ ErrorRecord.size = 0
            b == ErrorRecord.size > 0 /\ ErrorRecord.code # NO_ERROR
                 /\ obs.replies = 0 /\ obs.hlts = 1
            c == obs.aborts > 0
        IN /\ a \/ b \/ c
           /\ ~(a /\ b) /\ ~(a /\ c) /\ ~(b /\ c)

\* C7 as stated: the dispatcher enters Reply-Pending only by pushing a reply,
\* moves only Idle -> Serving -> Reply-Pending -> Idle, and halts exactly once.
C7_ReplyPendingMeansReplyPushed ==
    [][ /\ <<Mode, Mode'>> \in {<<"Idle", "Idle">>, <<"Idle", "Serving">>,
                               <<"Serving", "Serving">>, <<"Serving", "ReplyPending">>,
                               <<"ReplyPending", "Idle">>, <<"Serving", "Gone">>}
        /\ (Mode = "Serving" /\ Mode' = "ReplyPending") => obs'.replies = 1 ]_vars

\* C7 (amended): the dispatcher moves only Idle -> Serving (host enters
\* DispatchFunction) -> Reply-Pending (the reply was pushed, or an error sent
\* control to the dispatcher's exit with nothing pushed) -> Idle (HLT), unless
\* the sandbox is lost while Serving; no handler is invoked and no reply is
\* pushed outside Serving; a dispatch halts at most once, and every dispatch
\* whose handler returns (its OUTB calls having been answered) eventually
\* halts exactly once.
C7_DispatcherStateMachine ==
    /\ [][ /\ <<Mode, Mode'>> \in
                {<<"Idle", "Idle">>, <<"Idle", "Serving">>,
                 <<"Serving", "Serving">>, <<"Serving", "ReplyPending">>,
                 <<"ReplyPending", "Idle">>, <<"Serving", "Gone">>}
           /\ (Mode = "Idle" /\ Mode' = "Serving") => pc' = "dispatch"
           /\ (Mode = "Serving" /\ Mode' = "ReplyPending") =>
                 (obs'.replies = 1) # obs'.jumped
           /\ (Mode = "ReplyPending" /\ Mode' = "Idle") => obs'.hlts = obs.hlts + 1
           /\ obs'.handlerRuns > obs.handlerRuns => Mode = "Serving"
           /\ obs'.replies > obs.replies => Mode = "Serving" ]_vars
    /\ [](obs.hlts <= 1 /\ (obs.dispatched /\ pc = "halted" => obs.hlts = 1))
    /\ [](obs.returned => <>(pc = "halted" /\ obs.hlts = 1))

C7_Witness ==
    /\ pc = "halted" /\ obs.returned /\ obs.replies = 1 /\ obs.hlts = 1
    /\ obs.handlerRuns = 1 /\ steps > 0

\* C8: in a dispatch in which setError was called, no reply frame is pushed,
\* and at HLT the output buffer's stack pointer is what it was when the error
\* was raised.
C8_NoReplyAfterSetError ==
    obs.raised =>
        /\ obs.replies = 0
        /\ pc = "halted" => OutSp = obs.spAtRaise

\* C9 as stated: after an error the recovery path has pushed an error frame
\* on the output buffer by the time the guest halts.
C9_RecoveryPushesErrorFrame ==
    (obs.dispatched /\ obs.jumped /\ pc = "halted") => OutSp > obs.spAtJump

\* C9 (amended): when an error is raised while Serving, control goes to the
\* dispatcher's saved recovery point (never back to the handler or the
\* dispatcher's body) and the recovery path pushes nothing: up to and at the
\* halt the output buffer is as the jump left it, no reply has been pushed,
\* and the error is in the guest-error buffer only.
C9_RecoveryPushesNothing ==
    /\ obs.raised => pc \in {"exit", "halted", "outb", "resume", "dead"}
    /\ obs.jumped =>
          /\ pc \in {"exit", "halted"}
          /\ OutSp = obs.spAtJump
          /\ obs.replies = 0
          /\ ErrorRecord.size > 0

C9_Witness ==
    /\ pc = "halted" /\ obs.raised /\ obs.jumped /\ obs.hlts = 1
    /\ obs.handlerRuns = 1 /\ ErrorRecord.code = GUEST_ERROR

\* the longest prefix of message whose record fits the guest-error buffer
C10_TruncatedToFit(c, m) ==
    IF m = NULL THEN NULL
    ELSE LET k == CHOOSE k \in 0..Len(m) :
                    /\ writeError_fits(c, SubSeq(m, 1, k), GuestErrorBufferSize)
                    /\ \A j \in (k + 1)..Len(m) :
                          ~writeError_fits(c, SubSeq(m, 1, j), GuestErrorBufferSize)
         IN SubSeq(m, 1, k)

\* C10: after setError(c, m), c an ErrorCode, the guest-error buffer reads
\* back as code c and message m (cut to fit when the record would exceed the
\* buffer), and no statement after the setError call runs: control is at the
\* dispatcher's exit.
C10_ErrorRecordIsCodeAndMessage ==
    (obs.raised /\ ErrorCode_is_known_value(obs.raisedCode)) =>
        /\ pc \in {"exit", "halted"}
        /\ ErrorRecord.size > 0
        /\ ErrorRecord.code = obs.raisedCode
        /\ ErrorRecord.message = C10_TruncatedToFit(obs.raisedCode, obs.raisedMsg)

(***************************************************************************)
(* Claims about argument validation and lookup (checked under Spec).       *)
(***************************************************************************)

\* DispatchFunction has run for the call the host dispatched
Entered == obs.dispatched /\ pc # "dispatch"

\* the call is a guest call that names a registered function
NamesRegistered ==
    /\ obs.call.callType = FunctionCallType_guest
    /\ \E d \in 1..Len(RegisteredFunctions) : RegisteredFunctions[d].name = obs.call.name

\* the registered definition the call names
Declared ==
    RegisteredFunctions[CHOOSE d \in 1..Len(RegisteredFunctions) :
                            RegisteredFunctions[d].name = obs.call.name]

\* the dispatch failed with code before any handler or fallback ran, the
\* record is in the guest-error buffer and nothing was pushed as a reply
FailedWith(code) ==
    /\ obs.raised /\ obs.raisedCode = code
    /\ obs.handlerRuns = 0 /\ obs.fallbackRuns = 0 /\ obs.replies = 0
    /\ pc \in {"exit", "halted"}
    /\ ErrorRecord.code = code /\ ErrorRecord.message = obs.raisedMsg

\* C11: a call to a registered function of k declared parameters with m # k
\* arguments fails with GuestFunctionIncorrectNumberOfParameters, whatever the
\* argument types, and the handler is not invoked.
C11_WrongCountFails ==
    (Entered /\ NamesRegistered
       /\ Len(obs.call.params) # Len(Declared.params)) =>
        FailedWith(GUEST_FUNCTION_INCORRECT_NO_OF_PARAMETERS)

C11_Witness ==
    /\ pc = "halted" /\ Entered /\ NamesRegistered
    /\ Len(obs.call.params) > Len(Declared.params)
    /\ FailedWith(GUEST_FUNCTION_INCORRECT_NO_OF_PARAMETERS)

\* the supplied arguments are the declared parameters with the int32 length
\* that follows a vec_bytes left out
OmitsLength ==
    LET D == Declared.params
        P == obs.call.params
    IN /\ Len(P) = Len(D) - 1
       /\ \E i \in 1..(Len(D) - 1) :
             /\ D[i] = ParameterType_hlvecbytes /\ D[i + 1] = ParameterType_hlint
             /\ \A j \in 1..i : ParameterKindOf(P[j].tag) = D[j]
             /\ \A j \in (i + 1)..Len(P) : ParameterKindOf(P[j].tag) = D[j + 1]

\* C12 as stated: a call that omits the int32 length after a vec_bytes fails
\* with ArrayLengthParameterMissing, with the message "Last parameter should
\* be the length of the array" when the vec_bytes is the last argument.
C12_OmittedLengthIsArrayLengthMissing ==
    (Entered /\ NamesRegistered /\ OmitsLength) =>
        /\ FailedWith(ARRAY_LENGTH_PARAM_IS_MISSING)
        /\ obs.call.params[Len(obs.call.params)].tag = ParameterValue_hlvecbytes
              => obs.raisedMsg = MsgLastParamLength

\* the supplied arguments up to and including position n (from 1) pass the
\* loop of lines 777-818: known types, and an int32 after every vec_bytes
LoopPasses(n) ==
    LET P == obs.call.params IN
    \A j \in 1..n :
        /\ ParameterKindOf(P[j].tag) # -1
        /\ (j > 1 /\ P[j - 1].tag = ParameterValue_hlvecbytes)
              => P[j].tag = ParameterValue_hlint

\* C12 (amended): a call that omits the int32 length has one argument too few
\* and fails with GuestFunctionIncorrectNumberOfParameters.  With the right
\* number of arguments, ArrayLengthParameterMissing is the error when the
\* argument after a vec_bytes at position i - 1 is not an int32 (message
\* "Parameter i") and when the last argument is a vec_bytes (message "Last
\* parameter should be the length of the array").  No reply in either case.
C12_ArrayLengthMissing ==
    LET P == obs.call.params
        m == Len(P)
    IN
    /\ (Entered /\ NamesRegistered /\ OmitsLength) =>
          FailedWith(GUEST_FUNCTION_INCORRECT_NO_OF_PARAMETERS)
    /\ (Entered /\ NamesRegistered /\ m = Len(Declared.params)) =>
          /\ (m > 0 /\ LoopPasses(m) /\ P[m].tag = ParameterValue_hlvecbytes) =>
                /\ FailedWith(ARRAY_LENGTH_PARAM_IS_MISSING)
                /\ obs.raisedMsg = MsgLastParamLength
          /\ \A i \in 2..m :
                (LoopPasses(i - 1) /\ P[i - 1].tag = ParameterValue_hlvecbytes
                   /\ P[i].tag # ParameterValue_hlint) =>
                   /\ FailedWith(ARRAY_LENGTH_PARAM_IS_MISSING)
                   /\ obs.raisedMsg = MsgParameterN(i - 1)

C12_Witness ==
    /\ pc = "halted" /\ Entered /\ NamesRegistered /\ OmitsLength
    /\ obs.call.params[Len(obs.call.params)].tag = ParameterValue_hlvecbytes
    /\ FailedWith(GUEST_FUNCTION_INCORRECT_NO_OF_PARAMETERS)

\* the positions (from 1) at which the supplied type is not the declared one
Mismatches ==
    {i \in 1..Len(Declared.params) :
        ParameterKindOf(obs.call.params[i].tag) # Declared.params[i]}

NamesUnregistered ==
    /\ obs.call.callType = FunctionCallType_guest
    /\ obs.call.name # <<>>
    /\ \A d \in 1..Len(RegisteredFunctions) : RegisteredFunctions[d].name # obs.call.name

\* C14: a guest call whose name matches no registered definition goes to the
\* fallback dispatcher GuestDispatchFunction and to no handler; the default
\* fallback raises GuestFunctionNotFound with the requested name as message,
\* the record (when it fits the guest-error buffer) holds that code and name,
\* and no reply frame is pushed.
C14_MissDelegatesToFallback ==
    (Entered /\ NamesUnregistered) =>
        /\ obs.lookups = 1 /\ obs.fallbackRuns = 1 /\ obs.handlerRuns = 0
        /\ fallback = "default" =>
              /\ obs.raised /\ obs.raisedCode = GUEST_FUNCTION_NOT_FOUND
              /\ obs.raisedMsg = obs.call.name
              /\ obs.replies = 0
              /\ writeError_fits(GUEST_FUNCTION_NOT_FOUND, obs.call.name,
                                 GuestErrorBufferSize) =>
                    /\ pc \in {"exit", "halted"}
                    /\ ErrorRecord.code = GUEST_FUNCTION_NOT_FOUND
                    /\ ErrorRecord.message = obs.call.name

C14_Witness ==
    /\ pc = "halted" /\ Entered /\ NamesUnregistered /\ fallback = "default"
    /\ obs.call.name = Name_Missing
    /\ ErrorRecord.code = GUEST_FUNCTION_NOT_FOUND
    /\ ErrorRecord.message = Name_Missing
    /\ OutSp = PtrBytes

\* the frame on top of the output buffer is the size-prefixed buffer bytes
TopOfOutputIs(bytes) ==
    LET top == pop_shared_input_buffer(outBuf, OutputDataSize, 0) IN
    /\ top.status = "ok"
    /\ Len(top.ret) = Len(bytes)
    /\ SubSeq(top.ret, 1, Len(bytes) - PrefixBytes)
         = SubSeq(bytes, PrefixBytes + 1, Len(bytes))

\* the call has the declared number of arguments, each of the declared type
Conforming ==
    /\ NamesRegistered
    /\ Len(obs.call.params) = Len(Declared.params)
    /\ Mismatches = {}

\* after finalization every registered definition is found under its name
\* and no definition is found under a name that differs in case
LookupFindsRegistered ==
    pc # "boot" =>
        /\ \A d \in 1..Len(RegisteredFunctions) :
              LET key == vec_find_by_function_name(registry, RegisteredFunctions[d].name)
              IN key # 0 /\ registry[key] = RegisteredFunctions[d]
        /\ vec_find_by_function_name(registry, Name_AddLower) = 0

\* a conforming dispatch reaches its handler once with the guest-error buffer
\* clear, and the result the handler returns is the frame pushed
HandlerServes ==
    /\ obs.handlerRuns = 1 /\ obs.fallbackRuns = 0
    /\ (pc = "handler" /\ steps = 0) =>
          /\ ~obs.raised
          /\ errBuf = resetError(GuestErrorBufferSize)
    /\ (obs.replies = 1 /\ pc \in {"exit", "halted"}) => TopOfOutputIs(obs.result)

DeclaresLengths ==
    \A i \in 1..Len(Declared.params) :
        Declared.params[i] = ParameterType_hlvecbytes =>
            /\ i < Len(Declared.params)
            /\ Declared.params[i + 1] = ParameterType_hlint

C16_NonGuestCallTypeRejected ==
    (Entered /\ obs.call.callType # FunctionCallType_guest) =>
        /\ FailedWith(GUEST_ERROR)
        /\ obs.raisedMsg = MsgInvalidCallType
        /\ obs.lookups = 0
        /\ obs.handlerRuns = 0 /\ obs.fallbackRuns = 0
        /\ obs.replies = 0 /\ ~obs.returned
        /\ OutSp = obs.spAtRaise

C16_Witness ==
    /\ pc = "halted" /\ obs.dispatched
    /\ obs.call.callType = FunctionCallType_host
    /\ obs.call.name = Name_Add
    /\ FailedWith(GUEST_ERROR)
    /\ ErrorRecord.code = GUEST_ERROR /\ ErrorRecord.message = MsgInvalidCallType

\* C17: a dispatch that ends with a reply frame leaves every byte of the
\* guest-error buffer zero at HLT, whatever record the buffer held when the
\* dispatch began.
C17_ReplyLeavesErrorBufferZero ==
    (pc = "halted" /\ obs.dispatched /\ obs.replies > 0) =>
        \A o \in 0..(GuestErrorBufferSize - 1) : errBuf[o] = 0

C17_Witness ==
    /\ pc = "halted" /\ obs.dispatched /\ obs.stale
    /\ obs.replies = 1 /\ TopOfOutputIs(obs.result)
    /\ \A o \in 0..(GuestErrorBufferSize - 1) : errBuf[o] = 0

(***************************************************************************)
(* Claims about outbound host calls (checked under Spec).                  *)
(***************************************************************************)

InSp == StackPtr(inBuf, InputDataSize)

\* the guest is stopped in an OUTB on port 101
AtCallFunctionOutb == pc = "outb" /\ outb.port = OUTB_CALL_FUNCTION

\* the frame on top of the output buffer, read as a function call
TopOutboundCall ==
    FunctionCall_as_root(pop_shared_input_buffer(outBuf, OutputDataSize, 0).ret)

\* the serialized call the latest outbound attempt stands for
OutboundFrame ==
    SizePrefixed(FunctionCall_payload(
        [name |-> obs.outCall.name, callType |-> FunctionCallType_host,
         retType |-> 0,
         params |-> ValidateHostFunctionCall(obs.outCall.name,
                                             obs.outCall.args).params]))

\* C18: every OUTB on port 101 carries value 0 and comes right after exactly
\* one function-call frame with call_type host was pushed on the output
\* buffer: at the OUTB that call is the top frame.
C18_CallFunctionOutbFollowsPush ==
    /\ [](AtCallFunctionOutb =>
            /\ outb.value = 0
            /\ TopOfOutputIs(OutboundFrame)
            /\ TopOutboundCall.callType = FunctionCallType_host
            /\ TopOutboundCall.name = obs.outCall.name
            /\ OutSp = obs.outSpAtCall + Len(OutboundFrame) + PtrBytes)
    /\ [][(AtCallFunctionOutb' /\ ~AtCallFunctionOutb) =>
            /\ pc = "handler"
            /\ OutSp' = OutSp + Len(OutboundFrame') + PtrBytes]_vars

C18_Witness ==
    /\ AtCallFunctionOutb
    /\ obs.outCall.name = Name_HostPrint
    /\ Len(TopOutboundCall.params) = 1
    /\ TopOutboundCall.callType = FunctionCallType_host
    /\ obs.attempts = 2

\* the latest outbound attempt names no catalog entry or has the wrong
\* number of arguments
HostCallInvalid ==
    \/ \A h \in 1..Len(HostFunctions) : HostFunctions[h].name # obs.outCall.name
    \/ \E h \in 1..Len(HostFunctions) :
          /\ HostFunctions[h].name = obs.outCall.name
          /\ Len(HostFunctions[h].params) # Len(obs.outCall.args)

\* C19: an outbound call that names a host function absent from the catalog,
\* or that has the wrong number of arguments, raises GuestError; no frame is
\* pushed on the output buffer and no OUTB on port 101 is issued for it.
C19_InvalidHostCallRejected ==
    /\ []((obs.attempts > 0 /\ HostCallInvalid) =>
            /\ obs.raised /\ obs.raisedCode = GUEST_ERROR
            /\ obs.raisedMsg \in {MsgHostFunctionNotFound \o obs.outCall.name,
                                  MsgHostIncorrectArgs \o obs.outCall.name}
            /\ ~AtCallFunctionOutb
            /\ OutSp = obs.outSpAtCall
            /\ ~obs.thunkReturned)
    /\ [][(obs'.attempts = obs.attempts + 1 /\ HostCallInvalid') =>
            /\ outBuf' = outBuf
            /\ ~AtCallFunctionOutb']_vars

\* C20: once an outbound host call made through a thunk has returned to the
\* handler, the host's reply has been popped: the input buffer's stack
\* pointer is what it was at the OUTB, before the host pushed the reply.
C20_ThunkReturnBalanced ==
    obs.thunkReturned => InSp = obs.inSpAtOutb

\* C21: after an OUTB returns with a host-written record of code # NoError
\* in the guest-error buffer, the guest takes the structured exit: the
\* handler does not resume, no reply frame is pushed, the dispatcher goes to
\* its exit and halts, and the buffer still holds the host-written code.
C21_HostErrorTakesStructuredExit ==
    /\ [](obs.hostError =>
            /\ pc \in {"resume", "exit", "halted"}
            /\ obs.replies = 0 /\ ~obs.returned
            /\ ErrorRecord.size > 0
            /\ ErrorRecord.code = ErrorCode_OutbError)
    /\ [][(obs.hostError /\ pc = "resume") =>
            (pc' = "exit" /\ outBuf' = outBuf /\ errBuf' = errBuf)]_vars
    /\ [][(obs.hostError /\ pc = "exit") => (pc' = "halted" /\ errBuf' = errBuf)]_vars
    /\ (obs.hostError /\ pc = "exit") ~> (obs.hostError /\ pc = "halted")

C21_Witness ==
    /\ pc = "halted" /\ obs.hostError
    /\ obs.attempts = 1 /\ obs.outCall.name = Name_GetTwo
    /\ obs.replies = 0
    /\ ErrorRecord.code = ErrorCode_OutbError

(***************************************************************************)
(* Claims about the scalar thunks (checked under SpecThunk).               *)
(***************************************************************************)

\* the tag and the value of the frame the host placed on the input buffer
PlacedTag == obs.hostPlaced[PrefixBytes + 1]
PlacedValue == SubSeq(obs.hostPlaced, PrefixBytes + 2, Len(obs.hostPlaced))

\* the host answered the latest outbound call with a frame and the thunk has
\* read it
ThunkDone == obs.hostPlaced # <<>> /\ pc \notin {"outb", "resume"}

\* the frame carries the scalar type the thunk reads
PlacedTagExpected ==
    \/ obs.outCall.thunk \in {"int", "uint"} /\ PlacedTag = ReturnValue_hlint
    \/ obs.outCall.thunk \in {"longlong", "ulonglong"} /\ PlacedTag = ReturnValue_hllong

\* the placed value has its sign bit set
PlacedNegative == PlacedValue[Len(PlacedValue)] >= 128

\* a two's-complement value widened to 64 bits
SignExtend(v) ==
    v \o [i \in 1..(8 - Len(v)) |-> IF v[Len(v)] >= 128 THEN 255 ELSE 0]

\* the reply frame on top of the output buffer
TopReply ==
    FunctionCallResult_as_root(pop_shared_input_buffer(outBuf, OutputDataSize, 0).ret)

\* C22 as stated: every value of the thunk's return type that the host places
\* comes back from the thunk unchanged, and a handler that returns it as its
\* reply puts the same value in the reply frame.
C22_ScalarSurvivesThunkAndReply ==
    (ThunkDone /\ PlacedTagExpected) =>
        /\ obs.thunkReturned
        /\ obs.hostValue = PlacedValue
        /\ (obs.replies = 1 /\ pc \in {"exit", "halted"}) =>
              SignExtend(TopReply.val) = SignExtend(PlacedValue)

\* C22 (amended): every int32 and int64 value placed for the int and longlong
\* thunks, and every value with the sign bit clear placed for the uint and
\* ulonglong thunks, comes back from the thunk unchanged; the reply a
\* handler makes of it with GetFlatBufferResultFromInt is an hlint holding
\* the value's low 32 bits, which is the same value for the int and uint
\* thunks.
C22_ScalarSurvivesWithinRange ==
    (ThunkDone /\ PlacedTagExpected
       /\ (obs.outCall.thunk \in {"uint", "ulonglong"} => ~PlacedNegative)) =>
        /\ obs.thunkReturned
        /\ obs.hostValue = PlacedValue
        /\ (obs.replies = 1 /\ pc \in {"exit", "halted"}) =>
              /\ TopReply.tag = ReturnValue_hlint
              /\ TopReply.val = SubSeq(PlacedValue, 1, 4)
              /\ obs.outCall.thunk \in {"int", "uint"} =>
                    SignExtend(TopReply.val) = SignExtend(PlacedValue)

C22_Witness ==
    /\ pc = "halted" /\ ThunkDone /\ obs.outCall.thunk = "longlong"
    /\ PlacedValue = <<255, 255, 255, 127, 255, 255, 255, 255>>
    /\ obs.hostValue = PlacedValue
    /\ obs.replies = 1
    /\ TopReply.val = <<255, 255, 255, 127>>

\* C23: for the uint and ulonglong thunks a host reply whose signed value is
\* negative raises GuestError and no value reaches the caller; for every
\* value-returning thunk a reply whose return-value tag is not the one the
\* thunk reads raises GuestError instead of returning a value.
C23_NegativeOrWrongTagRaises ==
    (ThunkDone /\ (~PlacedTagExpected
                    \/ (obs.outCall.thunk \in {"uint", "ulonglong"} /\ PlacedNegative))) =>
        /\ obs.raised /\ obs.raisedCode = GUEST_ERROR
        /\ obs.raisedMsg = (IF ~PlacedTagExpected THEN MsgHostReturnNotInt
                            ELSE IF obs.outCall.thunk = "uint" THEN MsgHostReturnNotUInt
                            ELSE MsgHostReturnNotULongLong)
        /\ ~obs.thunkReturned /\ obs.hostValue = <<>>
        /\ pc \in {"exit", "halted"}
        /\ obs.replies = 0
        /\ ErrorRecord.code = GUEST_ERROR

C23_Witness ==
    /\ pc = "halted" /\ ThunkDone /\ obs.outCall.thunk = "uint"
    /\ PlacedTag = ReturnValue_hlint
    /\ PlacedValue = <<255, 255, 255, 255>>
    /\ obs.raisedMsg = MsgHostReturnNotUInt
    /\ ErrorRecord.code = GUEST_ERROR /\ obs.replies = 0

(***************************************************************************)
(* Claims about the abort paths (checked under SpecAbort and Spec).        *)
(***************************************************************************)

\* the guest is stopped in the OUTB on port 102 of abort_with_code_and_message
AtAbortWithMessageOutb ==
    pc = "outb" /\ outb.port = OUTB_ABORT /\ cont.kind = "abort"

\* the C string a buffer holds: its bytes up to the first 0
CString(bytes) ==
    IF \E i \in 1..Len(bytes) : bytes[i] = 0
    THEN SubSeq(bytes, 1, (CHOOSE i \in 1..Len(bytes) :
                              bytes[i] = 0 /\ \A j \in 1..(i - 1) : bytes[j] # 0) - 1)
    ELSE bytes

\* C24 as stated: when the guest aborts with a code and a message, the
\* message is in the guest-panic-context buffer before the OUTB on port 102:
\* at the OUTB the host sees the abort code and the buffer holds the message.
C24_PanicMessageBeforeAbortOutb ==
    AtAbortWithMessageOutb =>
        /\ outb.value = cont.code
        /\ CString(panicBuf) = cont.msg

\* C24 (amended): at the OUTB on port 102 of an abort with code and message
\* the value is the code's low 8 bits and the guest-panic-context buffer
\* holds the first guestPanicContextDataSize bytes of the message and its
\* terminator: the whole message when it is shorter than the buffer.
C24_PanicPrefixBeforeAbortOutb ==
    AtAbortWithMessageOutb =>
        /\ outb.value = cont.code % 256
        /\ \A i \in 1..GuestPanicContextDataSize :
              /\ i <= Len(cont.msg) => panicBuf[i] = cont.msg[i]
              /\ i = Len(cont.msg) + 1 => panicBuf[i] = 0
        /\ Len(cont.msg) < GuestPanicContextDataSize => CString(panicBuf) = cont.msg

C24_Witness ==
    /\ AtAbortWithMessageOutb
    /\ cont.msg = <<66, 79>> /\ cont.code = 7
    /\ outb.value = 7
    /\ panicBuf = <<66, 79, 0>>


\* C26: once the guest has issued an OUTB on port 102 during a dispatch it
\* pushes no reply frame and does not halt as a completed dispatch, also when
\* the host returns control after the OUTB.
C26_NoReplyOrHaltAfterAbort ==
    obs.aborts > 0 => (obs.replies = 0 /\ obs.hlts = 0 /\ pc # "halted")

(***************************************************************************)
(* Claims about the runtime's fatal paths (checked under SpecFatal).       *)
(***************************************************************************)

\* this step enters the named fatal path
FatalStep(path) ==
    /\ Len(obs'.fatal) = Len(obs.fatal) + 1
    /\ obs'.fatal[Len(obs'.fatal)] = path

\* this step is a call of hyperlightMoreCore that exhausts the arena
ExhaustingMoreCoreStep ==
    /\ pc = "handler"
    /\ obs'.moreCore # obs.moreCore
    /\ obs'.moreCore.size # 0
    /\ \/ allocated + obs'.moreCore.size > GuestHeapSize
       \/ allocated + obs'.moreCore.size < 0

\* the log record of a fatal path fits the output buffer
LogFits ==
    StackPtr(outBuf, OutputDataSize) + Len(LogFrame) + PtrBytes <= OutputDataSize

\* this step ends at the OUTB on port 102 with the given code, without
\* setError
EndsAtAbortOutb(code) ==
    /\ pc' = "outb"
    /\ outb' = [port |-> OUTB_ABORT, value |-> code]
    /\ obs'.aborts = obs.aborts + 1
    /\ ~obs'.raised
    /\ errBuf' = errBuf

\* C25 (as stated): arena exhaustion in hyperlightMoreCore, dlmalloc_abort,
\* dlmalloc_failure, report_gsfailure and __assert_fail all end at the OUTB
\* on port 102 (dlmalloc_failure after the OUTB of its log record) and none
\* of them calls setError.
C25_FatalPathsAbort ==
    /\ [][ExhaustingMoreCoreStep =>
            (pc' = "outb" /\ outb'.port = OUTB_ABORT /\ ~obs'.raised)]_vars
    /\ [][(\E path \in {"dlmalloc_abort", "__assert_fail", "report_gsfailure"} :
              FatalStep(path)) =>
            (pc' = "outb" /\ outb'.port = OUTB_ABORT /\ ~obs'.raised)]_vars
    /\ [][FatalStep("dlmalloc_failure") =>
            (pc' = "outb" /\ outb'.port = OUTB_LOG /\ ~obs'.raised)]_vars
    /\ [][(pc = "resume" /\ cont.kind = "dlmalloc_failure"
           /\ ~checkForHostError(errBuf, GuestErrorBufferSize)) =>
            (pc' = "outb" /\ outb'.port = OUTB_ABORT /\ ~obs'.raised)]_vars

\* C25 (amended): arena exhaustion ends at the OUTB on port 102 with code 0;
\* dlmalloc_abort and __assert_fail, when their log record fits the output
\* buffer, end at the OUTB on port 102 with FAILURE_IN_DLMALLOC and
\* UNKNOWN_ERROR; dlmalloc_failure, when its log record fits, issues the OUTB
\* on port 99 and, when that returns without a host error, the OUTB on port
\* 102 with code 0; none of these calls setError.  A log record that does not
\* fit makes the push call setError, with no OUTB on port 102.
\* report_gsfailure calls setError(GS_CHECK_FAILED) and takes the long jump
\* to the exit of DispatchFunction, with no OUTB.
C25_FatalPathsExit ==
    /\ [][ExhaustingMoreCoreStep => EndsAtAbortOutb(0)]_vars
    /\ [][(FatalStep("dlmalloc_abort") /\ LogFits) =>
            EndsAtAbortOutb(FAILURE_IN_DLMALLOC)]_vars
    /\ [][(FatalStep("__assert_fail") /\ LogFits) =>
            EndsAtAbortOutb(UNKNOWN_ERROR)]_vars
    /\ [][(FatalStep("dlmalloc_failure") /\ LogFits) =>
            (/\ pc' = "outb"
             /\ outb' = [port |-> OUTB_LOG, value |-> 0]
             /\ obs'.aborts = obs.aborts
             /\ ~obs'.raised)]_vars
    /\ [][(pc = "resume" /\ cont.kind = "dlmalloc_failure"
           /\ ~checkForHostError(errBuf, GuestErrorBufferSize)) =>
            EndsAtAbortOutb(0)]_vars
    /\ [][((\E path \in {"dlmalloc_abort", "__assert_fail", "dlmalloc_failure"} :
               FatalStep(path)) /\ ~LogFits) =>
            (obs'.raised /\ obs'.aborts = obs.aborts /\ pc' # "outb")]_vars
    /\ [][FatalStep("report_gsfailure") =>
            (/\ obs'.raised
             /\ obs'.raisedCode = GS_CHECK_FAILED
             /\ pc' = "exit"
             /\ outb' = NoOutb
             /\ obs'.aborts = obs.aborts
             /\ GuestError_read(errBuf', GuestErrorBufferSize).code
                   = GS_CHECK_FAILED)]_vars

\* a dispatch in which dlmalloc_abort issued its OUTB on port 102, the host
\* returned, and report_gsfailure then took the structured exit
C25_Witness ==
    /\ obs.fatal = <<"dlmalloc_abort", "report_gsfailure">>
    /\ obs.aborts = 1
    /\ obs.raised
    /\ obs.raisedCode = GS_CHECK_FAILED
    /\ pc = "exit"

(***************************************************************************)
(* Claims about hyperlightMoreCore (checked under SpecHeap).               *)
(***************************************************************************)

\* the last request made of hyperlightMoreCore in this dispatch
MoreCoreCalled == obs.moreCore # <<>>

\* C27: the allocated total never exceeds guestHeapSize and the cursor never
\* passes the end of the arena; a positive request that brings the total to
\* exactly guestHeapSize is served, and one that would bring it to
\* guestHeapSize + 1 aborts, leaves the cursor and the total alone and
\* returns no region.
C27_NeverPastArena ==
    /\ allocated \in 0..GuestHeapSize
    /\ unusedHeapBufferPointer # 0 =>
          unusedHeapBufferPointer \in
              guestHeapBuffer..(guestHeapBuffer + GuestHeapSize)
    /\ MoreCoreCalled =>
          /\ (obs.moreCore.size > 0
              /\ obs.moreCore.allocated + obs.moreCore.size = GuestHeapSize) =>
                 (/\ ~obs.moreCore.aborted
                  /\ obs.moreCore.returned
                  /\ allocated = GuestHeapSize)
          /\ (obs.moreCore.size > 0
              /\ obs.moreCore.allocated + obs.moreCore.size = GuestHeapSize + 1) =>
                 (/\ obs.moreCore.aborted
                  /\ ~obs.moreCore.returned
                  /\ allocated = obs.moreCore.allocated
                  /\ unusedHeapBufferPointer = obs.moreCore.cursor)

\* C28: hyperlightMoreCore(0) returns the cursor, which is the arena base
\* plus the bytes allocated so far (the arena base itself before the first
\* positive request), and changes neither the cursor nor the allocated total.
C28_ZeroReturnsCursor ==
    (MoreCoreCalled /\ obs.moreCore.size = 0) =>
        /\ obs.moreCore.returned
        /\ obs.moreCore.ret = guestHeapBuffer + obs.moreCore.allocated
        /\ allocated = obs.moreCore.allocated
        /\ unusedHeapBufferPointer = obs.moreCore.cursor

\* C29: a negative size is rejected with FAILURE_IN_DLMALLOC, and it neither
\* moves the cursor backwards nor reduces the allocated total.
C29_NegativeSizeRejected ==
    (MoreCoreCalled /\ obs.moreCore.size < 0) =>
        /\ \/ obs.raised /\ obs.raisedCode = FAILURE_IN_DLMALLOC
           \/ obs.moreCore.aborted /\ obs.moreCore.code = FAILURE_IN_DLMALLOC
        /\ allocated = obs.moreCore.allocated
        /\ unusedHeapBufferPointer = obs.moreCore.cursor

\* the cursor as an address: the arena base until the first positive request
CursorAddress(cursor) == IF cursor = 0 THEN guestHeapBuffer ELSE cursor

\* a step in which hyperlightMoreCore served a positive request
ServesPositiveRequest ==
    /\ obs'.moreCore # obs.moreCore
    /\ obs'.moreCore # <<>>
    /\ obs'.moreCore.size > 0
    /\ obs'.moreCore.returned

\* every served positive request returns the region that starts where the
\* previous one ended and moves the cursor to its end
C35_RegionsContiguous ==
    [][ServesPositiveRequest =>
          /\ obs'.moreCore.ret = CursorAddress(unusedHeapBufferPointer)
          /\ unusedHeapBufferPointer' = obs'.moreCore.ret + obs'.moreCore.size]_vars

\* C35: the allocator cursor only increases: each positive request returns
\* the region starting where the previous one ended, and no step of the
\* program moves the cursor back.
C35_CursorOnlyIncreases ==
    [][/\ CursorAddress(unusedHeapBufferPointer') >=
              CursorAddress(unusedHeapBufferPointer)
       /\ ServesPositiveRequest =>
             /\ obs'.moreCore.ret = CursorAddress(unusedHeapBufferPointer)
             /\ unusedHeapBufferPointer' =
                    obs'.moreCore.ret + obs'.moreCore.size]_vars

(***************************************************************************)
(* Claims about the function registry (checked under Spec).                *)
(***************************************************************************)

\* a is not after b in byte-wise lexicographic order
NameNotAfter(a, b) ==
    \/ (Len(a) <= Len(b) /\ \A k \in 1..Len(a) : a[k] = b[k])
    \/ \E k \in 1..Len(a) :
          /\ k <= Len(b)
          /\ a[k] < b[k]
          /\ \A j \in 1..(k - 1) : a[j] = b[j]

\* how often definition d occurs in the sequence defs
Occurrences(d, defs) == Cardinality({i \in 1..Len(defs) : defs[i] = d})

\* C30: once FinaliseFunctionTable has run, the registry is in ascending
\* order of function name and holds exactly the definitions registered in
\* HyperlightMain, and no later step (dispatch, lookup, outbound host call,
\* error recovery) changes it.
C30_RegistrySealed ==
    /\ [](pc # "boot" =>
            /\ \A i \in 1..(Len(registry) - 1) :
                  NameNotAfter(registry[i].name, registry[i + 1].name)
            /\ Len(registry) = Len(RegisteredFunctions)
            /\ \A i \in 1..Len(RegisteredFunctions) :
                  Occurrences(RegisteredFunctions[i], registry)
                     = Occurrences(RegisteredFunctions[i], RegisteredFunctions))
    /\ [][pc # "boot" => registry' = registry]_vars

\* a dispatch that looked its function up, called out to the host and
\* recovered from the host's error through the long jump, back at HLT
C30_Witness ==
    /\ pc = "halted"
    /\ obs.dispatched
    /\ obs.lookups > 0
    /\ obs.attempts > 0
    /\ obs.jumped
    /\ registry # RegisteredFunctions
    /\ registry # <<>>

(***************************************************************************)
(* Claims about entryPoint (checked under SpecInit).                       *)
(***************************************************************************)

\* C31: whenever entryPoint has issued its HLT, and so whenever the host can
\* enter DispatchFunction, the registry has been finalised: it holds the
\* registered definitions, also when the initialisation raised an error.
C31_FinalisedBeforeHlt ==
    pc \in {"halted", "dispatch", "handler"} =>
        /\ Len(registry) = Len(RegisteredFunctions)
        /\ \A i \in 1..Len(RegisteredFunctions) :
              \E j \in 1..Len(registry) : registry[j] = RegisteredFunctions[i]

\* C32: entryPoint called with pebAddress 0 returns -1; it writes none of
\* the shared buffers, registers nothing, and issues neither HLT nor OUTB.
C32_NullPebRefused ==
    /\ [][(pc = "boot" /\ obs'.pebAddress = 0 /\ pc' # "boot") =>
            (/\ pc' = "returned"
             /\ obs'.entryRet = -1
             /\ obs'.hlts = obs.hlts
             /\ obs'.aborts = obs.aborts
             /\ UNCHANGED <<outBuf, inBuf, errBuf, panicBuf, registry, outb>>)]_vars
    /\ [][pc = "returned" => UNCHANGED vars]_vars

\* entryPoint has returned -1 for a null pebAddress and the error record
\* the host left in the guest-error buffer is still there
C32_Witness ==
    /\ pc = "returned"
    /\ obs.pebAddress = 0
    /\ obs.entryRet = -1
    /\ errBuf # resetError(GuestErrorBufferSize)
    /\ registry = <<>>

(***************************************************************************)
(* Claims about nested calls (checked under SpecNested).                   *)
(***************************************************************************)

\* C33: while a handler or the fallback dispatcher runs, the function-call
\* record it was given stays as the host sent it (name, call type, return
\* type, parameters), whatever Log calls and outbound host calls it makes,
\* and each outbound call returns the value the host placed for it.
C33_CallRecordSurvivesNesting ==
    /\ [](obs.seenCall # <<>> =>
            /\ Len(obs.seenCall) >= Len(FunctionCall_payload(obs.call))
            /\ SubSeq(obs.seenCall, 1, Len(FunctionCall_payload(obs.call)))
                  = FunctionCall_payload(obs.call)
            /\ FunctionCall_as_root(obs.seenCall) = obs.call)
    /\ [][(pc \in {"handler", "outb", "resume"}
           /\ pc' \in {"handler", "outb", "resume"}) => buffer' = buffer]_vars
    /\ []((obs.hostPlaced # <<>> /\ pc \notin {"outb", "resume"}
           /\ obs.outCall.thunk = "int"
           /\ obs.hostPlaced[PrefixBytes + 1] = ReturnValue_hlint) =>
            /\ obs.thunkReturned
            /\ obs.hostValue
                  = SubSeq(obs.hostPlaced, PrefixBytes + 2, Len(obs.hostPlaced)))

\* the fallback dispatcher has logged, called the host, got the host's value
\* and then read the call it was given
C33_Witness ==
    /\ pc = "handler"
    /\ obs.fallbackRuns = 1
    /\ obs.logs = 1
    /\ obs.attempts = 1
    /\ obs.thunkReturned
    /\ obs.hostValue = <<2, 0, 0, 0>>
    /\ obs.seenCall # <<>>
    /\ obs.call.name = Name_Missing

\* C37: a push that finds the stack pointer out of range, or not enough
\* room for the data and its back-pointer, raises GuestError and leaves every
\* byte of the buffer, the stack pointer included, as it was.
C37_FailedPushWritesNothing ==
    last.op = "push" =>
        LET sp == StackPtr(last.before, OutputDataSize) IN
        (sp < 8 \/ sp > OutputDataSize \/ sp + last.size + 8 > OutputDataSize) =>
            /\ ~last.ok
            /\ last.code = GUEST_ERROR
            /\ outBuf = last.before

\* a push refused for lack of room while earlier frames are on the stack
\* and some of its bytes would still have fitted
C37_Witness ==
    /\ last.op = "push" /\ ~last.ok
    /\ last.msg = MsgNotEnoughSpace
    /\ shadow # <<>>
    /\ last.size > 0
    /\ StackPtr(outBuf, OutputDataSize) < OutputDataSize

(***************************************************************************)
(* Claims about the abort value (checked under SpecAbort).                 *)
(***************************************************************************)

\* the guest is in the OUTB of the abort function a handler called last
AtHandlerAbortOutb ==
    /\ pc = "outb"
    /\ outb.port = OUTB_ABORT
    /\ obs.abortCall # <<>>

\* C40: the value delivered on port 102 is the low 8 bits of the 32-bit code
\* passed to abort_with_code or abort_with_code_and_message, and abort()
\* delivers 0.
C40_AbortValueIsLowByte ==
    AtHandlerAbortOutb =>
        /\ outb.value \in 0..255
        /\ \E q \in 0..1 : obs.abortCall.code = 256 * q + outb.value
        /\ obs.abortCall.fn = "abort" => outb.value = 0

\* abort_with_code(263) delivers 7
C40_Witness ==
    /\ AtHandlerAbortOutb
    /\ obs.abortCall = [fn |-> "abort_with_code", code |-> 263]
    /\ outb.value = 7

(***************************************************************************)
(* Claims about outbound calls with a buffer (checked under SpecHostCall). *)
(***************************************************************************)

\* a step in which a handler calls the host function declared with
\* (vec_bytes, int32), passing a buffer and a length
VecHostCallStep ==
    /\ obs'.attempts = obs.attempts + 1
    /\ obs'.outCall.name = Name_HostWrite
    /\ Len(obs'.outCall.args) = 2

\* C39: an outbound call to a host function declared with a vec_bytes
\* parameter followed by an int32, made with a buffer and a positive length,
\* passes validation: the call frame is pushed and OUTB 101 is issued (unless
\* the frame does not fit the output buffer); a length <= 0 raises GuestError.
C39_VecBytesHostCallPasses ==
    [][VecHostCallStep =>
          IF obs'.outCall.args[2] > 0
          THEN \/ /\ pc' = "outb"
                  /\ outb'.port = OUTB_CALL_FUNCTION
                  /\ StackPtr(outBuf', OutputDataSize) >
                         StackPtr(outBuf, OutputDataSize)
               \/ /\ obs'.raised
                  /\ obs'.raisedMsg = MsgNotEnoughSpace
          ELSE /\ obs'.raised
               /\ obs'.raisedCode = GUEST_ERROR]_vars

\* what the code does instead: every such call, whatever the length, is
\* refused with the message about the length parameter and pushes nothing
C39_VecBytesHostCallRefused ==
    [][VecHostCallStep =>
          /\ obs'.raised
          /\ obs'.raisedCode = GUEST_ERROR
          /\ obs'.raisedMsg = MsgHostLengthParam \o Name_HostWrite
          /\ outBuf' = outBuf
          /\ pc' = "exit"]_vars

(***************************************************************************)
(* Claims about the two shared buffers (checked under SpecShared).         *)
(***************************************************************************)

\* the offsets at which two buffers of the same size differ
ChangedOffsets(before, after) == {o \in DOMAIN before : before[o] # after[o]}

\* C36: a push changes no byte of the input buffer and a pop changes no byte
\* of the output buffer; a successful push of size bytes at sp changes only
\* bytes 0..7 and [sp, sp + size + 8) of the output buffer, and a successful
\* pop changes only bytes 0..7 and [frame_start, sp) of the input buffer.
C36_WritesStayInFrame ==
    /\ last.op = "push" =>
          /\ inBuf = last.inBefore
          /\ last.ok =>
                ChangedOffsets(last.outBefore, outBuf) \subseteq
                    (0..7) \cup (last.sp..(last.sp + last.size + 7))
    /\ last.op = "pop" =>
          /\ outBuf = last.outBefore
          /\ last.ok =>
                ChangedOffsets(last.inBefore, inBuf) \subseteq
                    (0..7) \cup (last.back..(last.sp - 1))

\* a successful pop of a frame above the bottom of the input stack, made
\* while the output buffer holds at least two pushed frames
C36_Witness ==
    /\ last.op = "pop" /\ last.ok
    /\ last.back > PtrBytes
    /\ ChangedOffsets(last.inBefore, inBuf) # {}
    /\ StackPtr(outBuf, OutputDataSize) > PtrBytes + PrefixBytes + MaxPayload + 8

\* C38: whatever the host wrote in the input buffer, a pop that returns a
\* frame leaves the stack pointer sp' with 8 <= sp' <= sp - 8 and changes
\* only bytes 0..7 and bytes inside [sp', sp); a back-pointer outside
\* [8, sp - 8] is reported as GuestError and not used.
C38_PopStaysInsideStack ==
    (last.op = "pop" /\ ~PopSpCorrupt(last.sp, InputDataSize)) =>
        /\ last.ok =>
              /\ StackPtr(inBuf, InputDataSize) >= 8
              /\ StackPtr(inBuf, InputDataSize) <= last.sp - 8
              /\ ChangedOffsets(last.inBefore, inBuf) \subseteq
                     (0..7) \cup (StackPtr(inBuf, InputDataSize)..(last.sp - 1))
        /\ (last.back < 8 \/ last.back > last.sp - 8) =>
              /\ ~last.ok
              /\ pc # "dead"
              /\ last.code = GUEST_ERROR
              /\ inBuf = last.inBefore

\* pops whose back-pointer lies in [8, sp - 8] do stay inside the stack
C38_PopWithBackPointerInRange ==
    (last.op = "pop" /\ last.ok
       /\ last.back >= 8 /\ last.back <= last.sp - 8) =>
        /\ StackPtr(inBuf, InputDataSize) = last.back
        /\ ChangedOffsets(last.inBefore, inBuf) \subseteq
               (0..7) \cup (last.back..(last.sp - 1))

(***************************************************************************)
(* Claims about argument validation (checked under SpecArgs).              *)
(***************************************************************************)

\* the supplied argument at position i (from 1) is a vec_bytes that is the
\* last argument or is followed by something other than an int32
LengthMissingAt(i) ==
    /\ obs.call.params[i].tag = ParameterValue_hlvecbytes
    /\ \/ i = Len(obs.call.params)
       \/ obs.call.params[i + 1].tag # ParameterValue_hlint

\* the supplied argument at position i has a value type the runtime knows
KnownValueType(i) ==
    obs.call.params[i].tag \in
        {ParameterValue_hlint, ParameterValue_hllong, ParameterValue_hlstring,
         ParameterValue_hlbool, ParameterValue_hlvecbytes}

\* C34 (as stated): with the declared number of arguments, a vec_bytes
\* argument that is last or not followed by an int32 makes the dispatch fail
\* with ArrayLengthParameterMissing, whatever the declared types are, and
\* the handler is not invoked.
C34_LengthRuleFirst ==
    (Entered /\ NamesRegistered
       /\ Len(obs.call.params) = Len(Declared.params)
       /\ \E i \in 1..Len(obs.call.params) : LengthMissingAt(i)) =>
        FailedWith(ARRAY_LENGTH_PARAM_IS_MISSING)

\* C34 (amended): the same, provided every argument before the first such
\* vec_bytes has a known value type; an argument of unknown value type
\* before it fails the dispatch with UnsupportedParameterType instead.  In
\* both cases the declared types are not compared and no handler runs.
C34_LengthRuleAfterKnownTypes ==
    (Entered /\ NamesRegistered
       /\ Len(obs.call.params) = Len(Declared.params)) =>
        \A i \in 1..Len(obs.call.params) :
            (LengthMissingAt(i) /\ \A j \in 1..(i - 1) : ~LengthMissingAt(j)) =>
                IF \A j \in 1..(i - 1) : KnownValueType(j)
                THEN FailedWith(ARRAY_LENGTH_PARAM_IS_MISSING)
                ELSE FailedWith(UNSUPPORTED_PARAMETER_TYPE)

\* Add(int32, int32) called with (int32, vec_bytes): the second argument
\* also differs from the declared type, and the failure is
\* ArrayLengthParameterMissing
C34_Witness ==
    /\ pc = "halted"
    /\ Entered
    /\ obs.call.name = Name_Add
    /\ obs.call.params = <<IntParam, VecParam>>
    /\ Mismatches # {}
    /\ FailedWith(ARRAY_LENGTH_PARAM_IS_MISSING)

(***************************************************************************)
(* Claims about the shared-buffer stack protocol (checked under SpecBuf).  *)
(***************************************************************************)

\* C2: after every pop that matches a push, in LIFO order, the stack pointer
\* is back at its value before that push (at the value the buffer started
\* with once every push is matched), and every byte at an offset >= sp is 0.
C2_MatchedPairsRestore ==
    /\ (shadow = <<>> => OutSp = base)
    /\ (last.op = "pop" /\ last.ok => OutSp = last.mark)
    /\ \A o \in 0..(OutputDataSize - 1) : o >= OutSp => outBuf[o] = 0

C2_Witness ==
    /\ last.op = "pop" /\ last.ok
    /\ Len(last.data) > 0
    /\ Len(shadow) >= 1
    /\ OutSp > PtrBytes

C4_PushSucceedsIffFits ==
    last.op = "push" =>
        /\ last.ok <=> (/\ 8 <= last.sp
                        /\ last.sp <= OutputDataSize
                        /\ last.sp + last.size + 8 <= OutputDataSize)
        /\ last.ok => OutSp = last.sp + last.size + 8
        /\ ~last.ok => last.code = GUEST_ERROR /\ outBuf = last.before

\* an exact fit has succeeded, and now a push one byte too long has failed
C4_Witness ==
    /\ "pushExactFit" \in seen
    /\ last.op = "push" /\ ~last.ok
    /\ last.sp + last.size + 8 = OutputDataSize + 1
    /\ last.msg = MsgNotEnoughSpace

\* C5: a pop with sp < 16 (the empty stack's 8 included) or sp > size fails
\* with GuestError and returns no frame; a pop with sp = 16 passes the check.
C5_PopBounds ==
    last.op = "pop" =>
        /\ (last.sp < 16 \/ last.sp > OutputDataSize) =>
              /\ ~last.ok
              /\ last.code = GUEST_ERROR
              /\ last.ret = <<>>
              /\ outBuf = last.before
        /\ last.sp = 16 => last.ok /\ OutSp = PtrBytes

\* a pop of the empty stack has failed, and now a pop at sp = 16 has succeeded
C5_Witness ==
    /\ "popEmpty" \in seen
    /\ last.op = "pop" /\ last.ok
    /\ last.sp = 16

\* C6: from an empty buffer, sp stays 8 or >= 16 and never exceeds the size;
\* a push or pop that finds sp outside its range raises GuestError and
\* leaves every byte of the buffer as it was.
C6_SpRange ==
    /\ base = PtrBytes => (OutSp = 8 \/ OutSp >= 16) /\ OutSp <= OutputDataSize
    /\ (last.op = "push" /\ (last.sp < 8 \/ last.sp > OutputDataSize)) =>
          ~last.ok /\ last.code = GUEST_ERROR /\ outBuf = last.before
    /\ (last.op = "pop" /\ (last.sp < 16 \/ last.sp > OutputDataSize)) =>
          ~last.ok /\ last.code = GUEST_ERROR /\ outBuf = last.before

C6_Witness ==
    /\ last.op = "push" /\ ~last.ok
    /\ last.sp < 8
    /\ last.msg = MsgCorruptOutputPtr

====
